---- MODULE Spec2Model ----
(***************************************************************************)
(* chatbot383: the Dispatcher (bot.py: Bot, Limiter,                       *)
(* InboundMessageSession), the connections and their drivers (client.py:   *)
(* Client, ClientThread) and the registered handlers (features.py:         *)
(* Features) as a state machine.                                           *)
(*                                                                         *)
(* Strings are sequences of one-character strings, so that lower-casing,   *)
(* prefix matching, the at-mention prefix and the safety check are         *)
(* computed character by character as the code computes them.  A character *)
(* outside ASCII is written as its code point name ("U+0E88").             *)
(***************************************************************************)
EXTENDS Integers, Sequences, FiniteSets, TLC

(***************************************************************************)
(* Bounds of the model.                                                    *)
(***************************************************************************)
\* The clock runs from 0 to MaxTime seconds.
MaxTime == 6
\* At most MaxEvents protocol events are received in one behaviour of Spec.
MaxEvents == 2
\* At most MaxCommands commands are put on the outbound queues in DrainSpec
\* without having been skipped.
MaxCommands == 6
\* The clock of ConnSpec and of SchedSpec runs from 0 to MaxUptime seconds.
MaxUptime == 350

(***************************************************************************)
(* Program constants.                                                      *)
(***************************************************************************)
\* client.py:26 and app.py:11, queue.Queue(100)
InboundCap == 100
\* client.py:27, queue.Queue(10)
OutboundCap == 10
\* client.py:152, for dummy in range(5)
DrainBatch == 5
\* bot.py:230, len(self._table) > 500
TableCap == 500
\* bot.py:52, Limiter(min_interval=5)
UserMinInterval == 5
\* bot.py:53, Limiter(min_interval=1)
ChannelMinInterval == 1
\* bot.py:82, len(text) > 400
MaxTextChars == 400
\* bot.py:82, len(text.encode('utf-8', 'replace')) > 450
MaxTextBytes == 450
\* bot.py:146, split_multiline(cls, text, max_length=400)
SplitMaxLength == 400

(***************************************************************************)
(* String literals of the source and of the configuration.                 *)
(***************************************************************************)
\* 'Bot383': the nickname the bot logged in with
Nickname ==
    <<"B", "o", "t", "3", "8", "3">>
\* '#room': a channel of the configuration
C_room ==
    <<"#", "r", "o", "o", "m">>
\* '#food': a channel of the configuration, features.py:234
C_food ==
    <<"#", "f", "o", "o", "d">>
\* '#_grp': a group chat of the configuration
C_grp ==
    <<"#", "_", "g", "r", "p">>
\* '#quiet': a channel of the configured silent_channels
C_quiet ==
    <<"#", "q", "u", "i", "e", "t">>
\* 'spammer': a user of the configured ignore list
U_spammer ==
    <<"s", "p", "a", "m", "m", "e", "r">>
\* 'food': features.py:234
U_food ==
    <<"f", "o", "o", "d">>
\* 'see the wiki': the configured help_text
HelpText ==
    <<"s", "e", "e", " ", "t", "h", "e", " ", "w", "i", "k", "i">>
\* 'Sqqueeaak!': a text gen_roar() can return
Roar1 ==
    <<"S", "q", "q", "u", "e", "e", "a", "a", "k", "!">>
\* 'Kappa //': features.py:490
KappaText ==
    <<"K", "a", "p", "p", "a", " ", "/", "/">>
\* '(...) ': bot.py:151
L_continuation ==
    <<"(", ".", ".", ".", ")", " ">>
\* 'Alice': a display name
N_Alice ==
    <<"A", "l", "i", "c", "e">>
\* 'alice': a source nick
N_alice_src ==
    <<"a", "l", "i", "c", "e">>

\* The literals of the command patterns (features.py:169-190).
CommandText ==
    \* '!help'
    [help |->
        <<"!", "h", "e", "l", "p">>,
     \* '!groudongerhelp'
     groudongerhelp |->
        <<"!", "g", "r", "o", "u", "d", "o", "n", "g", "e", "r", "h", "e",
          "l", "p">>,
     \* '!groudon'
     groudon |->
        <<"!", "g", "r", "o", "u", "d", "o", "n">>,
     \* '!groudonger'
     groudonger |->
        <<"!", "g", "r", "o", "u", "d", "o", "n", "g", "e", "r">>,
     \* '!klappa'
     klappa |->
        <<"!", "k", "l", "a", "p", "p", "a">>,
     \* '!foodcurrent'
     foodcurrent |->
        <<"!", "f", "o", "o", "d", "c", "u", "r", "r", "e", "n", "t">>,
     \* '!foodnext'
     foodnext |->
        <<"!", "f", "o", "o", "d", "n", "e", "x", "t">>]

\* The literals of the patterns and comparisons applied to the food
\* channel's announcements (features.py:594-647).
FoodText ==
    \* 'now playing "'
    [now_playing |->
        <<"n", "o", "w", " ", "p", "l", "a", "y", "i", "n", "g", " ", "\"">>,
     \* 'will play "'
     will_play |->
        <<"w", "i", "l", "l", " ", "p", "l", "a", "y", " ", "\"">>,
     \* '" next'
     next_tail |->
        <<"\"", " ", "n", "e", "x", "t">>,
     \* 'the vote is done! the winner is "'
     vote_done |->
        <<"t", "h", "e", " ", "v", "o", "t", "e", " ", "i", "s", " ", "d",
          "o", "n", "e", "!", " ", "t", "h", "e", " ", "w", "i", "n", "n",
          "e", "r", " ", "i", "s", " ", "\"">>,
     \* '" with '
     with_votes |->
        <<"\"", " ", "w", "i", "t", "h", " ">>,
     \* ' vote'
     vote |->
        <<" ", "v", "o", "t", "e">>,
     \* 'TIME TO VOTE!'
     time_to_vote |->
        <<"T", "I", "M", "E", " ", "T", "O", " ", "V", "O", "T", "E", "!">>,
     \* 'voting'
     voting |->
        <<"v", "o", "t", "i", "n", "g">>,
     \* 'julia'
     julia |->
        <<"j", "u", "l", "i", "a">>,
     \* 'french'
     french |->
        <<"f", "r", "e", "n", "c", "h">>,
     \* 'chef'
     chef |->
        <<"c", "h", "e", "f">>]

\* The literals of the texts sent about the food channel
\* (features.py:596-601, 661-699).
FoodReply ==
    \* 'PogChamp '
    [pogchamp |->
        <<"P", "o", "g", "C", "h", "a", "m", "p", " ">>,
     \* 'twitch.tv/food is now playing "'
     is_now_playing |->
        <<"t", "w", "i", "t", "c", "h", ".", "t", "v", "/", "f", "o", "o",
          "d", " ", "i", "s", " ", "n", "o", "w", " ", "p", "l", "a", "y",
          "i", "n", "g", " ", "\"">>,
     \* 'twitch.tv/food will play "'
     will_play |->
        <<"t", "w", "i", "t", "c", "h", ".", "t", "v", "/", "f", "o", "o",
          "d", " ", "w", "i", "l", "l", " ", "p", "l", "a", "y", " ", "\"">>,
     \* " I have no idea what's playing on twitch.tv/food right now! :( "
     no_idea_current |->
        <<" ", "I", " ", "h", "a", "v", "e", " ", "n", "o", " ", "i", "d",
          "e", "a", " ", "w", "h", "a", "t", "'", "s", " ", "p", "l", "a",
          "y", "i", "n", "g", " ", "o", "n", " ", "t", "w", "i", "t", "c",
          "h", ".", "t", "v", "/", "f", "o", "o", "d", " ", "r", "i", "g",
          "h", "t", " ", "n", "o", "w", "!", " ", ":", "(", " ">>,
     \* " I have no idea what's playing on twitch.tv/food next! :( "
     no_idea_next |->
        <<" ", "I", " ", "h", "a", "v", "e", " ", "n", "o", " ", "i", "d",
          "e", "a", " ", "w", "h", "a", "t", "'", "s", " ", "p", "l", "a",
          "y", "i", "n", "g", " ", "o", "n", " ", "t", "w", "i", "t", "c",
          "h", ".", "t", "v", "/", "f", "o", "o", "d", " ", "n", "e", "x",
          "t", "!", " ", ":", "(", " ">>,
     \* ' twitch.tv/food is now playing "'
     food_is_now |->
        <<" ", "t", "w", "i", "t", "c", "h", ".", "t", "v", "/", "f", "o",
          "o", "d", " ", "i", "s", " ", "n", "o", "w", " ", "p", "l", "a",
          "y", "i", "n", "g", " ", "\"">>,
     \* '"! '
     quote_bang_sp |->
        <<"\"", "!", " ">>,
     \* 'twitch.tv/food chat is currently voting for what to play next.'
     currently_voting |->
        <<"t", "w", "i", "t", "c", "h", ".", "t", "v", "/", "f", "o", "o",
          "d", " ", "c", "h", "a", "t", " ", "i", "s", " ", "c", "u", "r",
          "r", "e", "n", "t", "l", "y", " ", "v", "o", "t", "i", "n", "g",
          " ", "f", "o", "r", " ", "w", "h", "a", "t", " ", "t", "o", " ",
          "p", "l", "a", "y", " ", "n", "e", "x", "t", ".">>,
     \* '" next!'
     quote_next_bang |->
        <<"\"", " ", "n", "e", "x", "t", "!">>,
     \* '(last updated '
     last_updated |->
        <<"(", "l", "a", "s", "t", " ", "u", "p", "d", "a", "t", "e", "d",
          " ">>,
     \* ' ago)'
     ago |->
        <<" ", "a", "g", "o", ")">>,
     \* 'second'
     second |->
        <<"s", "e", "c", "o", "n", "d">>,
     \* 'seconds'
     seconds |->
        <<"s", "e", "c", "o", "n", "d", "s">>]

\* Texts of the chat messages of the model.
Texts ==
    \* 'hello'
    [hello |->
        <<"h", "e", "l", "l", "o">>,
     \* '!klappa'
     klappa |->
        <<"!", "k", "l", "a", "p", "p", "a">>,
     \* 'now playing "Julia"'
     now_julia |->
        <<"n", "o", "w", " ", "p", "l", "a", "y", "i", "n", "g", " ", "\"",
          "J", "u", "l", "i", "a", "\"">>,
     \* '!helpme'
     helpme |->
        <<"!", "h", "e", "l", "p", "m", "e">>]

(***************************************************************************)
(* Characters and strings.                                                 *)
(***************************************************************************)
\* Python's None where a string is expected: no string of characters equals it.
None == <<"None">>

\* None where a timestamp is expected.
NoTime == 0 - 1

\* No item, and no session.
NoItem == [event_type |-> "none"]

NoSession == [message |-> NoItem, client |-> "none"]

UpperCase ==
    <<"A", "B", "C", "D", "E", "F", "G", "H", "I", "J", "K", "L", "M",
      "N", "O", "P", "Q", "R", "S", "T", "U", "V", "W", "X", "Y", "Z">>

LowerCase ==
    <<"a", "b", "c", "d", "e", "f", "g", "h", "i", "j", "k", "l", "m",
      "n", "o", "p", "q", "r", "s", "t", "u", "v", "w", "x", "y", "z">>

\* str.lower() on one character (ASCII letters; the other characters of the
\* model have no case).
LowerOf == [c \in {UpperCase[i] : i \in 1..26} |->
                LowerCase[CHOOSE i \in 1..26 : UpperCase[i] = c]]

lower_char(c) == IF c \in DOMAIN LowerOf THEN LowerOf[c] ELSE c

\* irc.strings.lower on one character: str.lower(), then []\^ become {}|~.
irc_lower_char(c) ==
    CASE c = "[" -> "{"
      [] c = "]" -> "}"
      [] c = "\\" -> "|"
      [] c = "^" -> "~"
      [] OTHER -> lower_char(c)

py_lower(s) == [i \in 1..Len(s) |-> lower_char(s[i])]

irc_lower(s) == [i \in 1..Len(s) |-> irc_lower_char(s[i])]

\* Characters that regex \s matches.
Whitespace == {" ", "\t", "\n", "\r", "\f"}

\* Characters of U+0000..U+001F, regex [\x00-\x1f].
ControlChars == {"\t", "\n", "\r", "\f"}

\* Characters of the model that UTF-8 encodes in more than one byte.
TwoByteChars == {"U+00E9"}
ThreeByteChars == {"U+0E88"}

utf8_len_char(c) ==
    IF c \in ThreeByteChars THEN 3 ELSE IF c \in TwoByteChars THEN 2 ELSE 1

\* len(text.encode('utf-8', 'replace')): one byte for every character, one
\* more for the two-byte ones and two more for the three-byte ones.
utf8_len(s) ==
    Len(s) + Cardinality({i \in 1..Len(s) : s[i] \in TwoByteChars})
           + 2 * Cardinality({i \in 1..Len(s) : s[i] \in ThreeByteChars})

Drop(s, n) == SubSeq(s, n + 1, Len(s))

Take(s, n) == SubSeq(s, 1, n)

startswith(s, p) == Len(s) >= Len(p) /\ Take(s, Len(p)) = p

endswith(s, p) == Len(s) >= Len(p) /\ Drop(s, Len(s) - Len(p)) = p

\* str.format with one or more arguments: the pieces joined in order.
RECURSIVE Concat(_)
Concat(parts) ==
    IF parts = <<>> THEN <<>> ELSE Head(parts) \o Concat(Tail(parts))

(***************************************************************************)
(* Configuration (app.py:16-24): loaded once, immutable.                   *)
(***************************************************************************)
Main == "main"
Group == "group"
Clients == {Main, Group}

\* config['channels']
Channels == <<C_room, C_food, C_grp>>
\* config['ignored_users']
IgnoredUsers == {U_spammer}
\* config['silent_channels']
SilentChannels == {C_quiet}
\* config['alert_channels']
AlertChannels == {C_room}

(***************************************************************************)
(* Limiter (bot.py:214-232).  A limiter is [min_interval, table, others]:  *)
(* table maps the keys of the model to their timestamps and others counts  *)
(* the entries of the table whose keys are outside the model's inputs      *)
(* (is_ok is never asked about them, so their timestamps are not kept).    *)
(***************************************************************************)
Limiter(min_interval, others) ==
    [min_interval |-> min_interval, table |-> <<>>, others |-> others]

table_len(lim) == Cardinality(DOMAIN lim.table) + lim.others

\* is_ok with the comparison made inclusive: a key would be allowed again
\* when exactly min_interval has elapsed.
is_ok_inclusive(lim, key, time_now) ==
    IF key \notin DOMAIN lim.table
    THEN TRUE
    ELSE time_now - lim.table[key] >= lim.min_interval

\* Limiter.is_ok
is_ok(lim, key, time_now) ==
    IF key \notin DOMAIN lim.table
    THEN TRUE
    ELSE time_now - lim.table[key] > lim.min_interval

\* self._table[key] = time.time()
table_store(lim, key, time_now) ==
    [lim EXCEPT !.table =
        [k \in DOMAIN lim.table \cup {key} |->
            IF k = key THEN time_now ELSE lim.table[k]]]

\* random.choice(self._table) is self._table[i] for a random integer i below
\* len(self._table): the table is a dict keyed by strings, no integer is a
\* key of it, and the subscript raises KeyError.  Nothing is deleted.
\* The result is [lim, raised].
evict(stored) == [lim |-> stored, raised |-> table_len(stored) > TableCap]

update(lim, key, time_now) == evict(table_store(lim, key, time_now))

(***************************************************************************)
(* Outbound text pipeline (bot.py:74-159).                                 *)
(***************************************************************************)
is_group_chat(channel_name) == startswith(channel_name, <<"#", "_">>)

\* The characters of './!`_' (bot.py:85); the grave accent is written "U+0060".
ReservedChars == {".", "/", "!", "U+0060", "_"}

\* is_text_safe without its check of the first character.
is_text_safe_any_first(text, channel) ==
    IF text = <<>> THEN TRUE
    ELSE IF Len(text) > MaxTextChars \/ utf8_len(text) > MaxTextBytes THEN FALSE
    ELSE IF \E i \in 1..Len(text) : text[i] \in ControlChars THEN FALSE
    ELSE IF channel \in SilentChannels THEN FALSE
    ELSE TRUE

is_text_safe(text, channel) ==
    IF text = <<>> THEN TRUE
    ELSE IF Len(text) > MaxTextChars \/ utf8_len(text) > MaxTextBytes THEN FALSE
    ELSE IF text[1] \in ReservedChars THEN FALSE
    ELSE IF \E i \in 1..Len(text) : text[i] \in ControlChars THEN FALSE
    ELSE IF channel \in SilentChannels THEN FALSE
    ELSE TRUE

\* The largest n of low..high whose prefix of s encodes in at most max_length
\* bytes, low being such an n: found by halving, mid the middle tried next.
RECURSIVE prefix_between(_, _, _, _, _)
prefix_between(s, max_length, low, mid, high) ==
    IF low = high THEN low
    ELSE IF utf8_len(Take(s, mid)) <= max_length
    THEN prefix_between(s, max_length, mid, (mid + high + 1) \div 2, high)
    ELSE prefix_between(s, max_length, low, (low + mid) \div 2, mid - 1)

\* The length of the longest prefix of s that encodes in at most max_length
\* bytes.
utf8_prefix_len(s, max_length) ==
    prefix_between(s, max_length, 0,
        ((IF Len(s) < max_length THEN Len(s) ELSE max_length) + 1) \div 2,
        IF Len(s) < max_length THEN Len(s) ELSE max_length)

\* chatbot383.util.split_utf8: the parts of text, each of at most max_length
\* encoded bytes, cut between characters.
RECURSIVE split_utf8(_, _)
RECURSIVE split_at(_, _, _)
split_utf8(text, max_length) ==
    IF text = <<>> THEN <<>>
    ELSE split_at(text, max_length, utf8_prefix_len(text, max_length))

\* The part of n characters (of one, when not even one fits) and the rest.
split_at(text, max_length, n) ==
    IF n = 0
    THEN <<Take(text, 1)>> \o split_utf8(Drop(text, 1), max_length)
    ELSE <<Take(text, n)>> \o split_utf8(Drop(text, n), max_length)

\* mark_parts marking the first part as well.
mark_all_parts(parts) ==
    [index \in 1..Len(parts) |-> L_continuation \o parts[index]]

\* enumerate(parts) of split_multiline: every part after the first is marked.
mark_parts(parts) ==
    [index \in 1..Len(parts) |->
        IF index = 1 THEN parts[index] ELSE L_continuation \o parts[index]]

split_multiline(text, max_length) == mark_parts(split_utf8(text, max_length))

\* route sending everything to the main connection.
route_main(channel) == Main

route(channel) == IF is_group_chat(channel) THEN Group ELSE Main

\* Client.privmsg's queue item (client.py:193-199)
PrivmsgItem(target, text, action) ==
    [message_type |-> "privmsg", target |-> target, text |-> text,
     format_action |-> action]

\* Client.join's queue item (client.py:201-205)
JoinItem(channel) == [message_type |-> "join", channel |-> channel]

\* The lines handed to client.privmsg, in order: the loop returns at the
\* first line that is not safe.
RECURSIVE safe_prefix(_, _)
safe_prefix(lines, channel) ==
    IF lines = <<>> \/ ~is_text_safe(Head(lines), channel) THEN <<>>
    ELSE <<Head(lines)>> \o safe_prefix(Tail(lines), channel)

\* client.privmsg(channel, line, action=me) for each line of sent.
privmsg_each(channel, sent, me) ==
    [i \in 1..Len(sent) |->
        [client |-> route(channel), item |-> PrivmsgItem(channel, sent[i], me)]]

\* '@{}, {}'.format(reply_to, text)
at_mention(reply_to, text) ==
    Concat(<<(<<"@">>), reply_to, (<<",", " ">>), text>>)

\* Bot.send_text: the puts it makes, each [client, item], in order.
send_text(channel, text, me, reply_to, multiline) ==
    privmsg_each(channel,
        safe_prefix(
            IF multiline
            THEN split_multiline(
                    IF reply_to # None THEN at_mention(reply_to, text) ELSE text,
                    SplitMaxLength)
            ELSE <<IF reply_to # None THEN at_mention(reply_to, text) ELSE text>>,
            channel),
        me)

\* Bot.join: the put it makes.
join(channel) == <<[client |-> route(channel), item |-> JoinItem(channel)]>>

\* InboundMessageSession.reply and .say (bot.py:33-40)
reply(session, text) ==
    send_text(session.message.channel, text, FALSE, session.message.nick, FALSE)

say(session, text) ==
    send_text(session.message.channel, text, FALSE, None, FALSE)

(***************************************************************************)
(* Regular expressions of the source, computed on the character sequence.  *)
(***************************************************************************)
\* A command pattern r'(?i)LITERAL($|\s.*)' with optional groups expanded is
\* [ci, alts, term]: the literal alternatives, whether (?i) is set, and
\* whether ($|\s.*) follows.
Pattern(ci, alts, term) == [ci |-> ci, alts |-> alts, term |-> term]

\* re.match(pattern, text): a match anchored at the start of text.  After the
\* literal, ($|\s.*) matches at the end of the text or at a whitespace
\* character.
re_match(pattern, text) ==
    \E lit \in pattern.alts :
        /\ Len(text) >= Len(lit)
        /\ IF pattern.ci
           THEN py_lower(Take(text, Len(lit))) = py_lower(lit)
           ELSE Take(text, Len(lit)) = lit
        /\ \/ ~pattern.term
           \/ Len(text) = Len(lit)
           \/ text[Len(lit) + 1] \in Whitespace

RECURSIVE lstrip(_)
lstrip(s) ==
    IF s # <<>> /\ Head(s) \in Whitespace THEN lstrip(Tail(s)) ELSE s

RECURSIVE rstrip(_)
rstrip(s) ==
    IF s # <<>> /\ s[Len(s)] \in Whitespace
    THEN rstrip(Take(s, Len(s) - 1)) ELSE s

\* The index of the first double quote of s, 0 when it has none.
first_quote(s) ==
    IF \E i \in 1..Len(s) : s[i] = "\""
    THEN CHOOSE i \in 1..Len(s) :
            s[i] = "\"" /\ \A j \in 1..(i - 1) : s[j] # "\""
    ELSE 0

DigitSeq == <<"0", "1", "2", "3", "4", "5", "6", "7", "8", "9">>

Digits == {DigitSeq[i] : i \in 1..10}

RECURSIVE lstrip_digits(_)
lstrip_digits(s) ==
    IF s # <<>> /\ Head(s) \in Digits THEN lstrip_digits(Tail(s)) ELSE s

\* r'[0-9]+ votes?' on r: at least one digit, then the rest r2.
votes_tail(r, r2) ==
    /\ Len(r2) < Len(r)
    /\ r2 \in {FoodText.vote, FoodText.vote \o <<"s">>}

\* r'" with [0-9]+ votes?' (re.I) on the lower-cased text lt from the
\* closing quote on.
with_tail(lt) ==
    /\ startswith(lt, FoodText.with_votes)
    /\ votes_tail(Drop(lt, Len(FoodText.with_votes)),
                  lstrip_digits(Drop(lt, Len(FoodText.with_votes))))

vote_tail(tail) == with_tail(py_lower(tail))

\* re.fullmatch(r'\s*PREFIX([^"]+)TAIL\s*', text, re.I) for the three food
\* patterns; kind names the tail.  The result is the group (the title), or
\* None when the text does not match.
tail_matches(kind, tail) ==
    CASE kind = "next" -> py_lower(tail) = FoodText.next_tail
      [] kind = "now" -> tail = <<"\"">>
      [] kind = "vote" -> vote_tail(tail)

\* r is the text after the prefix and q the index of its first quote: the
\* group is what precedes the quote, the tail starts at the quote.
group_and_tail(kind, r, q) ==
    IF q > 1 /\ tail_matches(kind, Drop(r, q - 1)) THEN Take(r, q - 1) ELSE None

after_prefix(prefix, kind, s) ==
    IF startswith(py_lower(s), prefix)
    THEN group_and_tail(kind, Drop(s, Len(prefix)),
                        first_quote(Drop(s, Len(prefix))))
    ELSE None

food_fullmatch(prefix, kind, text) ==
    after_prefix(prefix, kind, rstrip(lstrip(text)))

\* Characters regex \w matches.
is_word_char(c) ==
    \/ \E i \in 1..26 : LowerCase[i] = lower_char(c)
    \/ c \in Digits
    \/ c = "_"
    \/ c \in TwoByteChars \cup ThreeByteChars

\* \b between positions i - 1 and i of s.
word_boundary(s, i) ==
    (i > 1 /\ is_word_char(s[i - 1])) # (i <= Len(s) /\ is_word_char(s[i]))

\* re.search(r"\bjulia\b", title, re.I)
search_julia(title) ==
    \E i \in 1..Len(title) :
        /\ startswith(py_lower(Drop(title, i - 1)), FoodText.julia)
        /\ word_boundary(title, i)
        /\ word_boundary(title, i + Len(FoodText.julia))

\* re.search(r"\bfrench\s+chef\b", title, re.I)
\* r'\s+chef\b' on r, the lower-cased title after "french"; r2 is r
\* without its leading whitespace.
chef_follows(title, r, r2) ==
    /\ Len(r2) < Len(r)
    /\ startswith(r2, FoodText.chef)
    /\ word_boundary(title, Len(title) - Len(r2) + Len(FoodText.chef) + 1)

search_french_chef(title) ==
    \E i \in 1..Len(title) :
        /\ startswith(py_lower(Drop(title, i - 1)), FoodText.french)
        /\ word_boundary(title, i)
        /\ chef_follows(title,
                        Drop(py_lower(title), i - 1 + Len(FoodText.french)),
                        lstrip(Drop(py_lower(title), i - 1 + Len(FoodText.french))))

\* '%d' for a natural number.
RECURSIVE DecStr(_)
DecStr(n) ==
    IF n < 10 THEN <<DigitSeq[n + 1]>>
    ELSE DecStr(n \div 10) \o <<DigitSeq[(n % 10) + 1]>>

(***************************************************************************)
(* Features (features.py): the handlers the application registers.         *)
(* The food state is [current, next, current_updated, next_updated].       *)
(* env holds what a handler draws from its environment: the texts          *)
(* gen_roar() returns, _random.choice's pick, and whether the append to    *)
(* foodlog.txt succeeds.                                                   *)
(***************************************************************************)
\* roar.gen_roar(): a random word of the chain S s* q+ u+ e+ a+ k+ !+ with
\* 8 < len < 30.
Roars == {Roar1}

Envs == [roar : Roars, pick_kappa : BOOLEAN, log_ok : BOOLEAN]

\* What a message handler draws (the log write) and what a command handler
\* draws (the roar, the pick).
HandlerEnvs == {env \in Envs : env.pick_kappa}

CommandEnvs == {env \in Envs : env.log_ok}

FoodInit ==
    [current |-> <<>>, next |-> <<>>,
     current_updated |-> NoTime, next_updated |-> NoTime]

Result(food, puts, raised) == [food |-> food, puts |-> puts, raised |-> raised]

\* A set of channels in the order the frozenset iterates it.
RECURSIVE SetToSeq(_)
SetToSeq(S) ==
    IF S = {} THEN <<>>
    ELSE <<CHOOSE x \in S : TRUE>> \o SetToSeq(S \ {CHOOSE x \in S : TRUE})

RECURSIVE send_each(_, _)
send_each(channels, text) ==
    IF channels = <<>> THEN <<>>
    ELSE send_text(Head(channels), text, FALSE, None, FALSE)
            \o send_each(Tail(channels), text)

\* Features._alert_important_food_change: the puts it makes.
_alert_important_food_change(title, isNow) ==
    IF search_julia(title) \/ search_french_chef(title)
    THEN send_each(SetToSeq(AlertChannels),
                   FoodReply.pogchamp \o
                   (IF isNow
                    THEN Concat(<<FoodReply.is_now_playing, title, (<<"\"">>)>>)
                    ELSE Concat(<<FoodReply.will_play, title, FoodText.next_tail>>)))
    ELSE <<>>

\* Features._collect_food_message, in the order of its statements; food and
\* puts are the food state and the puts made so far.  _log_food_nowplaying
\* appends to foodlog.txt and raises OSError when the file cannot be written.
cfm_vote(text, food, puts, time_now) ==
    Result(IF text = FoodText.time_to_vote /\ food.next # FoodText.voting
           THEN [food EXCEPT !.next = FoodText.voting, !.next_updated = time_now]
           ELSE food,
           puts, FALSE)

cfm_logged(text, food, puts, time_now, env) ==
    IF ~env.log_ok THEN Result(food, puts, TRUE)
    ELSE cfm_vote(text,
                  IF food.next = food.current
                  THEN [food EXCEPT !.next = <<>>, !.next_updated = time_now]
                  ELSE food,
                  puts, time_now)

cfm_now(text, food, puts, time_now, env, m_now) ==
    IF m_now # None /\ food.current # m_now
    THEN cfm_logged(text,
                    [food EXCEPT !.current = m_now,
                                 !.current_updated = time_now],
                    puts \o _alert_important_food_change(m_now, TRUE),
                    time_now, env)
    ELSE cfm_vote(text, food, puts, time_now)

cfm_next(text, food, time_now, env, whats_next) ==
    cfm_now(text,
            IF whats_next # <<>> /\ food.next # whats_next
            THEN [food EXCEPT !.next = whats_next, !.next_updated = time_now]
            ELSE food,
            IF whats_next # <<>> /\ food.next # whats_next
            THEN _alert_important_food_change(whats_next, FALSE)
            ELSE <<>>,
            time_now, env,
            food_fullmatch(FoodText.now_playing, "now", text))

whats_next_of(food, m_next, m_vote) ==
    IF m_vote # None THEN m_vote
    ELSE IF m_next # None /\ food.next # FoodText.voting THEN m_next
    ELSE <<>>

_collect_food_message(message, food, time_now, env) ==
    cfm_next(message.text, food, time_now, env,
             whats_next_of(food,
                           food_fullmatch(FoodText.will_play, "next", message.text),
                           food_fullmatch(FoodText.vote_done, "vote", message.text)))

\* Client.get_nickname(lower=True) (client.py:213-217); both connections log
\* in with the same username (app.py:27-46).
get_nickname_lower(client) == irc_lower(Nickname)

\* Features._collect_recent_message
_collect_recent_message(session, food, time_now, env) ==
    IF /\ session.message.event_type \in {"pubmsg", "action"}
       /\ session.message.username # get_nickname_lower(session.client)
       /\ py_lower(session.message.username) = U_food
       /\ py_lower(session.message.channel) = C_food
    THEN _collect_food_message(session.message, food, time_now, env)
    ELSE Result(food, <<>>, FALSE)

\* Features._food_updated_string: relativedelta(now, dt) of a difference
\* below one minute has only its seconds set.
_food_updated_string(dt, time_now) ==
    IF dt = NoTime \/ time_now - dt = 0 THEN <<>>
    ELSE Concat(<<FoodReply.last_updated, DecStr(time_now - dt), (<<" ">>),
                  IF time_now - dt > 1 THEN FoodReply.seconds ELSE FoodReply.second, FoodReply.ago>>)

_help_command(session, food, time_now, env) ==
    Result(food, reply(session, Concat(<<env.roar, (<<" ">>), HelpText>>)), FALSE)

py_upper(s) ==
    [i \in 1..Len(s) |->
        IF \E j \in 1..26 : LowerCase[j] = s[i]
        THEN UpperCase[CHOOSE j \in 1..26 : LowerCase[j] = s[i]]
        ELSE s[i]]

_roar_command(session, food, time_now, env) ==
    Result(food,
           say(session, Concat(<<env.roar, (<<" ">>), env.roar, (<<" ">>),
                                 py_upper(env.roar)>>)),
           FALSE)

_klappa_command(session, food, time_now, env) ==
    Result(food,
           say(session, IF env.pick_kappa THEN KappaText ELSE env.roar),
           FALSE)

_food_current_command(session, food, time_now, env) ==
    Result(food,
           reply(session,
                 (IF food.current = <<>>
                  THEN Concat(<<env.roar, FoodReply.no_idea_current>>)
                  ELSE Concat(<<env.roar, FoodReply.food_is_now, food.current,
                                FoodReply.quote_bang_sp>>))
                 \o _food_updated_string(food.current_updated, time_now)),
           FALSE)

_food_next_command(session, food, time_now, env) ==
    Result(food,
           reply(session,
                 (IF food.next = <<>>
                  THEN Concat(<<env.roar, FoodReply.no_idea_next>>)
                  ELSE Concat(<<env.roar, (<<" ">>),
                                IF food.next = FoodText.voting THEN FoodReply.currently_voting
                                ELSE Concat(<<FoodReply.will_play, food.next,
                                              FoodReply.quote_next_bang>>),
                                (<<" ">>)>>))
                 \o _food_updated_string(food.next_updated, time_now)),
           FALSE)

(***************************************************************************)
(* Bot (bot.py:43-211).                                                    *)
(***************************************************************************)
RECURSIVE join_each(_)
join_each(channels) ==
    IF channels = <<>> THEN <<>>
    ELSE join(Head(channels)) \o join_each(Tail(channels))

\* _join_channels joining every configured channel.
_join_all_channels(session, food, time_now, env) ==
    Result(food, join_each(Channels), FALSE)

\* Bot._join_channels
_join_channels(session, food, time_now, env) ==
    Result(food,
           join_each(IF session.client = Group
                     THEN SelectSeq(Channels, is_group_chat)
                     ELSE SelectSeq(Channels, LAMBDA ch : ~is_group_chat(ch))),
           FALSE)

\* func(session) for a registered func.
call(func, session, food, time_now, env) ==
    CASE func = "_join_channels" -> _join_channels(session, food, time_now, env)
      [] func = "_collect_recent_message" ->
            _collect_recent_message(session, food, time_now, env)
      [] func = "_help_command" -> _help_command(session, food, time_now, env)
      [] func = "_roar_command" -> _roar_command(session, food, time_now, env)
      [] func = "_klappa_command" -> _klappa_command(session, food, time_now, env)
      [] func = "_food_current_command" ->
            _food_current_command(session, food, time_now, env)
      [] func = "_food_next_command" ->
            _food_next_command(session, food, time_now, env)

\* Bot.register_message_handler, as called by Bot.__init__ (bot.py:59) and
\* then by Features.__init__ (features.py:165-166).
MessageHandlers ==
    <<[event_type |-> "welcome", func |-> "_join_channels"],
      [event_type |-> "pubmsg", func |-> "_collect_recent_message"],
      [event_type |-> "action", func |-> "_collect_recent_message"]>>

\* Bot.register_command, as called by Features.__init__ (features.py:169-190).
FeaturesCommands ==
    <<[pattern |-> Pattern(TRUE, {CommandText.help, CommandText.groudongerhelp}, TRUE),
       func |-> "_help_command"],
      [pattern |-> Pattern(TRUE, {CommandText.groudon, CommandText.groudonger}, TRUE),
       func |-> "_roar_command"],
      [pattern |-> Pattern(TRUE, {CommandText.klappa}, TRUE), func |-> "_klappa_command"],
      [pattern |-> Pattern(TRUE, {CommandText.foodcurrent}, TRUE),
       func |-> "_food_current_command"],
      [pattern |-> Pattern(TRUE, {CommandText.foodnext}, TRUE),
       func |-> "_food_next_command"]>>

\* register_command appends (bot.py:64-65): a registry is a sequence in
\* registration order.  The second registry has one more registration, made
\* last, whose pattern r'!' also matches every text the others match.
register_command(commands, pattern, func) ==
    Append(commands, [pattern |-> pattern, func |-> func])

Registries ==
    {FeaturesCommands,
     register_command(FeaturesCommands, Pattern(FALSE, {<<"!">>}, FALSE),
                      "_roar_command")}

\* A call the Dispatcher made: the index-th registration of the command
\* registry (kind "command") or of the handler registry (kind "handler").
Invocation(kind, index, func) == [kind |-> kind, index |-> index, func |-> func]

\* acc after the registration Head(hs) was called with result r.
after_call(acc, hs, r) ==
    [food |-> r.food, puts |-> acc.puts \o r.puts, raised |-> r.raised,
     invoked |-> Append(acc.invoked,
                    Invocation("handler", Len(MessageHandlers) - Len(hs) + 1,
                               Head(hs).func))]

\* Bot._process_message_handlers: hs is what is left of the registry, acc is
\* [food, puts, raised, invoked].  A handler that raises ends the loop.
RECURSIVE run_message_handlers(_, _, _, _, _)
run_message_handlers(hs, session, acc, time_now, env) ==
    IF hs = <<>> \/ acc.raised THEN acc
    ELSE run_message_handlers(Tail(hs), session,
            IF Head(hs).event_type # session.message.event_type THEN acc
            ELSE after_call(acc, hs,
                    call(Head(hs).func, session, acc.food, time_now, env)),
            time_now, env)

\* _process_message_handlers skipping the messages of ignored senders.
_process_message_handlers_unless_ignored(session, food, time_now, env) ==
    run_message_handlers(
        IF /\ "username" \in DOMAIN session.message
           /\ session.message.username \in IgnoredUsers
        THEN <<>> ELSE MessageHandlers,
        session,
        [food |-> food, puts |-> <<>>, raised |-> FALSE, invoked |-> <<>>],
        time_now, env)

_process_message_handlers(session, food, time_now, env) ==
    run_message_handlers(MessageHandlers, session,
        [food |-> food, puts |-> <<>>, raised |-> FALSE, invoked |-> <<>>],
        time_now, env)

\* The loop without its break: the last registration whose pattern matches
\* would be the one whose handler ran last.
last_match(cmds, text) ==
    IF \E i \in 1..Len(cmds) : re_match(cmds[i].pattern, text)
    THEN CHOOSE i \in 1..Len(cmds) :
            /\ re_match(cmds[i].pattern, text)
            /\ \A j \in (i + 1)..Len(cmds) : ~re_match(cmds[j].pattern, text)
    ELSE 0

\* The loop of bot.py:187-195: the index of the first registration whose
\* pattern matches, 0 when none does.
first_match(cmds, text) ==
    IF \E i \in 1..Len(cmds) : re_match(cmds[i].pattern, text)
    THEN CHOOSE i \in 1..Len(cmds) :
            /\ re_match(cmds[i].pattern, text)
            /\ \A j \in 1..(i - 1) : ~re_match(cmds[j].pattern, text)
    ELSE 0

\* The admission test without the comparison with our_username.
admitted_self(session, ul, cl, time_now) ==
    /\ session.message.username \notin IgnoredUsers
    /\ is_ok(ul, session.message.username, time_now)
    /\ is_ok(cl, session.message.channel, time_now)

\* The admission test without the ignore list.
admitted_ignored(session, ul, cl, time_now) ==
    /\ session.message.username # get_nickname_lower(session.client)
    /\ is_ok(ul, session.message.username, time_now)
    /\ is_ok(cl, session.message.channel, time_now)

\* The admission test without the sender's limiter.
admitted_any_time(session, ul, cl, time_now) ==
    /\ session.message.username \notin IgnoredUsers
    /\ session.message.username # get_nickname_lower(session.client)
    /\ is_ok(cl, session.message.channel, time_now)

\* The admission test of bot.py:178-185.
admitted(session, ul, cl, time_now) ==
    /\ session.message.username \notin IgnoredUsers
    /\ session.message.username # get_nickname_lower(session.client)
    /\ is_ok(ul, session.message.username, time_now)
    /\ is_ok(cl, session.message.channel, time_now)

\* What _process_text_commands does, as [user_limiter, channel_spam_limiter,
\* food, puts, raised, invoked, recorded]: recorded names the limiters whose
\* update was called.
Outcome(ul, cl, food, puts, raised, invoked, recorded) ==
    [user_limiter |-> ul, channel_spam_limiter |-> cl, food |-> food,
     puts |-> puts, raised |-> raised, invoked |-> invoked,
     recorded |-> recorded]

\* bot.py:193-194: command_func(session) for the i-th registration.
run_command(ul, cl, i, func, r) ==
    Outcome(ul, cl, r.food, r.puts, r.raised,
            <<Invocation("command", i, func)>>, {"user", "channel"})

\* bot.py:192: u2 is what self._channel_spam_limiter.update(channel) gives.
record_channel(session, cmds, ul, food, time_now, env, i, u2) ==
    IF u2.raised
    THEN Outcome(ul, u2.lim, food, <<>>, TRUE, <<>>, {"user", "channel"})
    ELSE run_command(ul, u2.lim, i, cmds[i].func,
                     call(cmds[i].func, session, food, time_now, env))

\* bot.py:191: u1 is what self._user_limiter.update(username) gives.
record_user(session, cmds, cl, food, time_now, env, i, u1) ==
    IF u1.raised
    THEN Outcome(u1.lim, cl, food, <<>>, TRUE, <<>>, {"user"})
    ELSE record_channel(session, cmds, u1.lim, food, time_now, env, i,
                        update(cl, session.message.channel, time_now))

\* _process_text_commands recording the cooldowns on admission, before the
\* registry is scanned.
_process_text_commands_eager(session, cmds, ul, cl, food, time_now, env) ==
    IF ~admitted(session, ul, cl, time_now)
    THEN Outcome(ul, cl, food, <<>>, FALSE, <<>>, {})
    ELSE IF first_match(cmds, session.message.text) = 0
    THEN Outcome(update(ul, session.message.username, time_now).lim,
                 update(cl, session.message.channel, time_now).lim,
                 food, <<>>, FALSE, <<>>, {"user", "channel"})
    ELSE record_user(session, cmds, cl, food, time_now, env,
                     first_match(cmds, session.message.text),
                     update(ul, session.message.username, time_now))

\* Bot._process_text_commands
_process_text_commands(session, cmds, ul, cl, food, time_now, env) ==
    IF ~admitted(session, ul, cl, time_now)
       \/ first_match(cmds, session.message.text) = 0
    THEN Outcome(ul, cl, food, <<>>, FALSE, <<>>, {})
    ELSE record_user(session, cmds, cl, food, time_now, env,
                     first_match(cmds, session.message.text),
                     update(ul, session.message.username, time_now))

(***************************************************************************)
(* The Dispatcher's scheduler (sched.scheduler of bot.py:54, run without   *)
(* blocking at bot.py:98) and the periodic reseed (features.py:192-198).   *)
(* A scheduler queue is the sequence of the due times of its events, the   *)
(* earliest first; every event is a call of _reseed_rng_sched.             *)
(***************************************************************************)
\* features.py:198, scheduler.enter(300, ...)
ReseedInterval == 300

\* Features._reseed_rng_sched: reseeds and enters itself again.
_reseed_rng_sched(queue, time) == Append(queue, time + ReseedInterval)

\* scheduler.run that runs the first event whether it is due or not.
RECURSIVE scheduler_run_early(_, _, _)
scheduler_run_early(queue, time, runs) ==
    IF queue = <<>> \/ runs > 0 THEN [scheduled |-> queue, runs |-> runs]
    ELSE scheduler_run_early(_reseed_rng_sched(Tail(queue), time), time,
                             runs + 1)

\* scheduler.run(blocking=False): while the first event is due it is taken
\* off the queue and its action is called; an event not yet due ends the run.
\* runs counts the calls.
RECURSIVE scheduler_run(_, _, _)
scheduler_run(queue, time, runs) ==
    IF queue = <<>> \/ Head(queue) > time
    THEN [scheduled |-> queue, runs |-> runs]
    ELSE scheduler_run(_reseed_rng_sched(Tail(queue), time), time, runs + 1)

(***************************************************************************)
(* The mailbox store (Database of features.py:35-123).  Only the unread    *)
(* rows matter to put_mail and get_mail, and of a row only its username:   *)
(* a store is the number of unread rows of each sender of MailSenders and  *)
(* the number of unread rows of all the other senders together.            *)
(***************************************************************************)
\* features.py:105, if row[0] >= 10
SenderCap == 10

\* features.py:111, if row[0] >= 100
StoreCap == 100

MailSenders == {N_alice_src, U_food}

\* The username column of a row of one of the other senders.
OtherSender == <<"o", "t", "h", "e", "r", "s">>

EmptyStore == [unread |-> [u \in MailSenders |-> 0], others |-> 0]

\* SELECT count(1) FROM mail WHERE status = 'unread' AND username = ?
unread_of(store, username) == store.unread[username]

\* SELECT count(1) FROM mail WHERE status = 'unread'
unread_total(store) ==
    store.unread[N_alice_src] + store.unread[U_food] + store.others

\* put_mail without the check of the sender's unread mails.
put_mail_any_sender(store, username) ==
    IF unread_total(store) >= StoreCap
    THEN [store |-> store, raised |-> "MailbagFullError"]
    ELSE [store |-> [store EXCEPT !.unread[username] = @ + 1],
          raised |-> "none"]

\* Database.put_mail: the store afterwards and the exception raised.
put_mail(store, username) ==
    IF unread_of(store, username) >= SenderCap
    THEN [store |-> store, raised |-> "SenderOutboxFullError"]
    ELSE IF unread_total(store) >= StoreCap
    THEN [store |-> store, raised |-> "MailbagFullError"]
    ELSE [store |-> [store EXCEPT !.unread[username] = @ + 1],
          raised |-> "none"]

\* The senders of the rows that get_mail's SELECT matches:
\* status = 'unread' AND username != (skip_username or '').
unread_rows(store, skip_username) ==
    {u \in MailSenders : u # skip_username /\ store.unread[u] > 0}
        \cup (IF store.others > 0 THEN {OtherSender} ELSE {})

\* Database.get_mail when fetchone returns a row of the sender row, or no
\* row (row = None): the row is marked read and its sender returned.
get_mail(store, row) ==
    IF row = None THEN [store |-> store, username |-> None]
    ELSE IF row = OtherSender
    THEN [store |-> [store EXCEPT !.others = @ - 1], username |-> row]
    ELSE [store |-> [store EXCEPT !.unread[row] = @ - 1], username |-> row]

(***************************************************************************)
(* Client (client.py): the items a connection builds from protocol events. *)
(* A protocol event is [type, target, source_nick, display_name, text].    *)
(***************************************************************************)
RawEvent(type, target, source_nick, display_name, text) ==
    [type |-> type, target |-> target, source_nick |-> source_nick,
     display_name |-> display_name, text |-> text]

\* tags_to_dict(event.tags).get('display-name') or event.source.nick
nick_of(event) ==
    IF event.display_name \in {None, <<>>}
    THEN event.source_nick ELSE event.display_name

_on_welcome(event) == [event_type |-> "welcome"]

_on_pubmsg(event) ==
    [event_type |-> "pubmsg", channel |-> irc_lower(event.target),
     nick |-> nick_of(event), username |-> irc_lower(event.source_nick),
     text |-> event.text]

_on_action(event) ==
    [event_type |-> "action", channel |-> irc_lower(event.target),
     nick |-> nick_of(event), username |-> irc_lower(event.source_nick),
     text |-> event.text]

_on_pubnotice(event) ==
    [event_type |-> "pubnotice", channel |-> irc_lower(event.target),
     text |-> event.text]

\* event.arguments[0], the user whose messages are cleared, is the event's
\* text; an event without arguments has None there.
_on_clearchat(event) ==
    [event_type |-> "clearchat", channel |-> irc_lower(event.target),
     nick |-> event.text,
     username |-> IF event.text = None THEN None ELSE irc_lower(event.text)]

_on_whisper(event) ==
    [event_type |-> "whisper", nick |-> event.source_nick,
     username |-> irc_lower(event.source_nick), text |-> event.text]

\* Client._dispatcher: the method named after the event's type.
_dispatcher(event) ==
    CASE event.type = "welcome" -> _on_welcome(event)
      [] event.type = "pubmsg" -> _on_pubmsg(event)
      [] event.type = "action" -> _on_action(event)
      [] event.type = "pubnotice" -> _on_pubnotice(event)
      [] event.type = "clearchat" -> _on_clearchat(event)
      [] event.type = "whisper" -> _on_whisper(event)

\* The item as the Dispatcher reads it (bot.py:105, item['client']): the
\* event with a reference to the connection that produced it.
push_inbound(c, item) ==
    [k \in DOMAIN item \cup {"client"} |->
        IF k = "client" THEN c ELSE item[k]]

(***************************************************************************)
(* State.                                                                  *)
(***************************************************************************)
VARIABLES
    now,                    \* time.time(), in seconds
    inbound_queue,          \* the shared inbound queue
    outbound_queue,         \* Client._outbound_queue, per connection
    user_limiter,           \* Bot._user_limiter
    channel_spam_limiter,   \* Bot._channel_spam_limiter
    commands,               \* Bot._commands
    food,                   \* Features._food_current, _food_next, ...
    bot_pc,                 \* where Bot.run is: tick, handlers, commands, crashed
    session,                \* the InboundMessageSession being processed
    pending,                \* puts the running handler has still to make
    fault,                  \* what the running call raises after its puts
    invoked,                \* the handlers invoked for the current event
    putting,                \* the item a driver is blocked putting, or NoItem
    recorded,               \* history: when update was last called, per key
    received,               \* protocol events received so far
    sending,                \* the arguments of the send_text call being made
    _running,               \* Client._running of a connection
    transport,              \* that connection: "new", "up", "down" (it was
                            \* disconnected) or "failed" (to connect)
    delayed,                \* due times of its reactor's delayed autoconnects
    scheduled,              \* the queue of the Dispatcher's scheduler
    reseeded,               \* calls of _reseed_rng_sched by the scheduler
    mail,                   \* the unread rows of the mailbox store
    mail_result,            \* the last call of the store and its outcome
    app,                    \* how far App.__init__ has come, and what it raised
    own_queue,              \* Client._inbound_queue as client.py:26 creates it
    transmitted,            \* the commands a driver handed to its connection
    took                    \* how many commands a driver's last drain took

\* f with key mapped to time_now.
Stamp(f, key, time_now) ==
    [k \in DOMAIN f \cup {key} |-> IF k = key THEN time_now ELSE f[k]]

vars ==
    <<now, inbound_queue, outbound_queue, user_limiter, channel_spam_limiter,
      commands, food, bot_pc, session, pending, fault, invoked, putting,
      recorded, received, sending, _running, transport, delayed, scheduled,
      reseeded, mail, mail_result, app, own_queue, transmitted, took>>

\* The variables of a connection's life cycle.
conn_vars == <<_running, transport, delayed>>

\* The variables of the Dispatcher's scheduler.
sched_vars == <<scheduled, reseeded>>

\* The variables of what the drivers transmit.
drain_vars == <<transmitted, took>>

\* The variables of the construction of the application.
src_vars == <<app, own_queue>>

\* The variables of the mailbox store.
mail_vars == <<mail, mail_result>>

\* No call of the mailbox store has been made.
NoMailCall == [op |-> "none"]

\* No call of send_text is being made.
NoCall == [channel |-> None]

bot_vars ==
    <<user_limiter, channel_spam_limiter, commands, food, bot_pc, session,
      pending, fault, invoked, recorded>>

\* The user limiter starts empty, or holding TableCap entries recorded for
\* TableCap earlier senders.  The mailbox store is the database file that
\* Database.__init__ opens (features.py:36-38): store.
Start(store) ==
    /\ now = 0
    /\ inbound_queue = <<>>
    /\ outbound_queue = [c \in Clients |-> <<>>]
    /\ user_limiter \in {Limiter(UserMinInterval, 0),
                         Limiter(UserMinInterval, TableCap)}
    /\ channel_spam_limiter = Limiter(ChannelMinInterval, 0)
    /\ commands \in Registries
    /\ food = FoodInit
    /\ bot_pc = "tick"
    /\ session = NoSession
    /\ pending = <<>>
    /\ fault = "none"
    /\ invoked = <<>>
    /\ putting = [c \in Clients |-> NoItem]
    /\ recorded = [user |-> <<>>, channel |-> <<>>]
    /\ received = 0
    /\ sending = NoCall
    /\ _running = TRUE
    /\ transport = "new"
    /\ delayed = <<>>
    /\ scheduled = _reseed_rng_sched(<<>>, 0)
    /\ reseeded = 0
    /\ mail = store
    /\ mail_result = NoMailCall
    /\ app = [pc |-> "new", raised |-> "none"]
    /\ own_queue = [c \in Clients |-> <<>>]
    /\ transmitted = [c \in Clients |-> <<>>]
    /\ took = [c \in Clients |-> 0]

Init == Start(EmptyStore)

(***************************************************************************)
(* The clock.                                                              *)
(***************************************************************************)
Tick ==
    /\ now < MaxTime
    /\ now' = now + 1
    /\ UNCHANGED <<inbound_queue, outbound_queue, bot_vars, putting, received>>

(***************************************************************************)
(* ClientThread.run -> Client.process (client.py:69-72, 151-191, 234-238). *)
(***************************************************************************)
\* What Client._process_outbound_messages takes: get_nowait() until the queue
\* is empty, DrainBatch times at most.
drain_count(queue) == IF Len(queue) < DrainBatch THEN Len(queue) ELSE DrainBatch

\* _process_outbound_messages without the bound of its loop: every queued
\* item is taken.
_process_outbound_messages_unbatched(c) ==
    /\ putting[c] = NoItem
    /\ outbound_queue[c] # <<>>
    /\ outbound_queue' = [outbound_queue EXCEPT ![c] = <<>>]
    /\ UNCHANGED <<now, inbound_queue, bot_vars, putting, received>>

\* Client._process_outbound_messages: the items are taken in queue order and
\* transmitted or skipped, none is put back.
_process_outbound_messages(c) ==
    /\ putting[c] = NoItem
    /\ outbound_queue[c] # <<>>
    /\ outbound_queue' =
         [outbound_queue EXCEPT ![c] = Drop(@, drain_count(@))]
    /\ UNCHANGED <<now, inbound_queue, bot_vars, putting, received>>

\* OnEvent putting the item in front of the queued ones.
OnEvent_front(c, event) ==
    /\ putting[c] = NoItem
    /\ inbound_queue' =
         <<push_inbound(c, _dispatcher(event))>> \o inbound_queue
    /\ UNCHANGED <<now, outbound_queue, bot_vars, putting>>

\* reactor.process_once (client.py:72 and :191) hands a protocol event to
\* _dispatcher, whose _on_ method puts the item on the inbound queue: at
\* once when the queue has room, and otherwise the driver blocks in put().
OnEvent(c, event) ==
    /\ putting[c] = NoItem
    /\ IF Len(inbound_queue) < InboundCap
       THEN /\ inbound_queue' =
                 Append(inbound_queue, push_inbound(c, _dispatcher(event)))
            /\ UNCHANGED putting
       ELSE /\ putting' =
                 [putting EXCEPT ![c] = push_inbound(c, _dispatcher(event))]
            /\ UNCHANGED inbound_queue
    /\ UNCHANGED <<now, outbound_queue, bot_vars>>

\* The blocked put() returns once the queue has room.
PutReturns(c) ==
    /\ putting[c] # NoItem
    /\ Len(inbound_queue) < InboundCap
    /\ inbound_queue' = Append(inbound_queue, putting[c])
    /\ putting' = [putting EXCEPT ![c] = NoItem]
    /\ UNCHANGED <<now, outbound_queue, bot_vars, received>>

(***************************************************************************)
(* Bot.run (bot.py:96-108).                                                *)
(***************************************************************************)
\* _process_message(item, client): the session, and r, what
\* _process_message_handlers did.  The puts the handlers make are in pending;
\* a handler that raises does so after the puts it made.
_process_message(s, r) ==
    /\ session' = s
    /\ food' = r.food
    /\ pending' = r.puts
    /\ fault' = IF r.raised THEN "handler" ELSE "none"
    /\ invoked' = r.invoked
    /\ bot_pc' = "handlers"

\* self._inbound_queue.get(timeout=0.2) returns an item; item['client'];
\* _process_message.
Dispatch(env) ==
    /\ bot_pc = "tick"
    /\ inbound_queue # <<>>
    /\ inbound_queue' = Tail(inbound_queue)
    /\ IF "client" \notin DOMAIN Head(inbound_queue)
       THEN /\ bot_pc' = "crashed"
            /\ fault' = "KeyError"
            /\ session' = NoSession
            /\ invoked' = <<>>
            /\ UNCHANGED <<food, pending>>
       ELSE _process_message(
                [message |-> Head(inbound_queue),
                 client |-> Head(inbound_queue).client],
                _process_message_handlers(
                    [message |-> Head(inbound_queue),
                     client |-> Head(inbound_queue).client],
                    food, now, env))
    /\ UNCHANGED <<now, outbound_queue, user_limiter, channel_spam_limiter,
                   commands, putting, recorded, received>>

\* Put into a queue that has no bound.
Put_unbounded ==
    /\ bot_pc \in {"handlers", "commands"}
    /\ pending # <<>>
    /\ outbound_queue' =
         [outbound_queue EXCEPT ![Head(pending).client] =
            Append(@, Head(pending).item)]
    /\ pending' = Tail(pending)
    /\ UNCHANGED <<now, inbound_queue, user_limiter, channel_spam_limiter,
                   commands, food, bot_pc, session, fault, invoked,
                   putting, recorded, received>>

\* client.privmsg / client.join: self._outbound_queue.put(item), which
\* blocks while the queue holds OutboundCap items.
Put ==
    /\ bot_pc \in {"handlers", "commands"}
    /\ pending # <<>>
    /\ Len(outbound_queue[Head(pending).client]) < OutboundCap
    /\ outbound_queue' =
         [outbound_queue EXCEPT ![Head(pending).client] =
            Append(@, Head(pending).item)]
    /\ pending' = Tail(pending)
    /\ UNCHANGED <<now, inbound_queue, user_limiter, channel_spam_limiter,
                   commands, food, bot_pc, session, fault, invoked,
                   putting, recorded, received>>

\* The call of _process_text_commands (bot.py:169) with outcome r.
text_commands(r) ==
    /\ user_limiter' = r.user_limiter
    /\ channel_spam_limiter' = r.channel_spam_limiter
    /\ food' = r.food
    /\ pending' = r.puts
    /\ fault' = IF r.raised THEN "KeyError" ELSE "none"
    /\ invoked' = invoked \o r.invoked
    /\ recorded' =
         [user |-> IF "user" \in r.recorded
                   THEN Stamp(recorded.user, session.message.username, now)
                   ELSE recorded.user,
          channel |-> IF "channel" \in r.recorded
                      THEN Stamp(recorded.channel, session.message.channel, now)
                      ELSE recorded.channel]
    /\ bot_pc' = "commands"
    /\ UNCHANGED session

\* _process_message without the test of the event type: _process_text_commands
\* is called for every event, and raises KeyError at the first entry of the
\* message that it reads and the item does not have.
HandlersDone_any_type(env) ==
    /\ bot_pc = "handlers"
    /\ pending = <<>>
    /\ IF fault # "none"
       THEN /\ bot_pc' = "crashed"
            /\ UNCHANGED <<user_limiter, channel_spam_limiter, food, session,
                           pending, fault, invoked, recorded>>
       ELSE IF {"text", "username", "channel"} \subseteq DOMAIN session.message
       THEN text_commands(
                _process_text_commands(session, commands, user_limiter,
                    channel_spam_limiter, food, now, env))
       ELSE text_commands(
                Outcome(user_limiter, channel_spam_limiter, food, <<>>, TRUE,
                        <<>>, {}))
    /\ UNCHANGED <<now, inbound_queue, outbound_queue, commands, putting,
                   received>>

\* _process_message_handlers returned or raised: an exception leaves run(),
\* which has no handler for it; otherwise _process_text_commands runs for a
\* pubmsg or an action.
HandlersDone(env) ==
    /\ bot_pc = "handlers"
    /\ pending = <<>>
    /\ IF fault # "none"
       THEN /\ bot_pc' = "crashed"
            /\ UNCHANGED <<user_limiter, channel_spam_limiter, food, session,
                           pending, fault, invoked, recorded>>
       ELSE IF session.message.event_type \in {"pubmsg", "action"}
       THEN text_commands(
                _process_text_commands(session, commands, user_limiter,
                    channel_spam_limiter, food, now, env))
       ELSE /\ bot_pc' = "tick"
            /\ session' = NoSession
            /\ invoked' = <<>>
            /\ UNCHANGED <<user_limiter, channel_spam_limiter, food, pending,
                           fault, recorded>>
    /\ UNCHANGED <<now, inbound_queue, outbound_queue, commands, putting,
                   received>>

\* _process_text_commands returned or raised.
CommandsDone ==
    /\ bot_pc = "commands"
    /\ pending = <<>>
    /\ bot_pc' = IF fault # "none" THEN "crashed" ELSE "tick"
    /\ session' = IF fault # "none" THEN session ELSE NoSession
    /\ invoked' = IF fault # "none" THEN invoked ELSE <<>>
    /\ UNCHANGED <<now, inbound_queue, outbound_queue, user_limiter,
                   channel_spam_limiter, commands, food, pending, fault,
                   putting, recorded, received>>

WelcomeEvent == RawEvent("welcome", None, None, None, None)

ChatEvents ==
    {RawEvent("pubmsg", C_room, N_alice_src, N_Alice, text) :
        text \in {CommandText.help, Texts.hello, Texts.helpme}}
    \cup {RawEvent("action", C_room, N_alice_src, N_Alice, Texts.klappa)}
    \cup {RawEvent("pubmsg", C_food, U_food, None, text) :
            text \in {CommandText.help, Texts.now_julia}}
    \cup {RawEvent("pubmsg", C_room, Nickname, None, CommandText.help)}
    \cup {RawEvent("pubmsg", C_room, U_spammer, None, CommandText.help)}
    \cup {RawEvent("pubmsg", C_grp, N_alice_src, N_Alice, CommandText.help)}

\* A connection receives the messages of the channels it joined.
EventsOf(c) ==
    {WelcomeEvent} \cup {e \in ChatEvents : route(irc_lower(e.target)) = c}

Next ==
    /\ \/ Tick
       \/ \E c \in Clients : _process_outbound_messages(c)
       \/ \E c \in Clients : \E event \in EventsOf(c) :
             /\ received < MaxEvents
             /\ received' = received + 1
             /\ OnEvent(c, event)
       \/ \E env \in HandlerEnvs : Dispatch(env)
       \/ Put
       \/ \E env \in CommandEnvs : HandlersDone(env)
       \/ CommandsDone
    /\ UNCHANGED <<sending, conn_vars, sched_vars, mail_vars, src_vars, drain_vars>>

Spec == Init /\ [][Next]_vars

(***************************************************************************)
(* A flood of welcome events on the main connection, with the queues at    *)
(* their capacities and the threads scheduled fairly.  The dispatcher      *)
(* thread and each ClientThread run whenever they can; the arrival of a    *)
(* protocol event is up to the server.                                     *)
(***************************************************************************)
DispatcherStep ==
    /\ \/ \E env \in HandlerEnvs : Dispatch(env)
       \/ Put
       \/ \E env \in CommandEnvs : HandlersDone(env)
    /\ UNCHANGED <<sending, conn_vars, sched_vars, mail_vars, src_vars, drain_vars>>

FairNext ==
    /\ \/ \E c \in Clients : _process_outbound_messages(c)
       \/ \E c \in Clients : PutReturns(c)
       \/ OnEvent(Main, WelcomeEvent) /\ UNCHANGED received
       \/ \E env \in HandlerEnvs : Dispatch(env)
       \/ Put
       \/ \E env \in CommandEnvs : HandlersDone(env)
    /\ UNCHANGED <<sending, conn_vars, sched_vars, mail_vars, src_vars, drain_vars>>

FairSpec ==
    /\ Init
    /\ [][FairNext]_vars
    /\ WF_vars(DispatcherStep)
    /\ \A c \in Clients :
          WF_vars(/\ _process_outbound_messages(c)
                  /\ UNCHANGED <<sending, conn_vars, sched_vars, mail_vars, src_vars, drain_vars>>)
    /\ \A c \in Clients :
          WF_vars(/\ PutReturns(c)
                  /\ UNCHANGED <<sending, conn_vars, sched_vars, mail_vars, src_vars, drain_vars>>)

(***************************************************************************)
(* Bot.send_text called with arguments of every kind (bot.py:110-133), the *)
(* puts of the call made one at a time, and the drivers draining.          *)
(***************************************************************************)
\* n times the character c
Repeat(c, n) == [i \in 1..n |-> c]

\* The texts send_text is called with: of one-, two- and three-byte
\* characters and of lengths around the limits of is_text_safe and of
\* split_multiline; beginning with a reserved or a control character; with a
\* control character in the second part of the split, or at the end.
TextInputs ==
    {Repeat(c, n) :
        c \in {"a"} \cup TwoByteChars \cup ThreeByteChars,
        n \in {0, 1, 133, 134, 150, 151, 394, 395, 400, 401, 450, 451, 500, 1000}}
    \cup {<<c>> \o Repeat("a", n) :
            c \in ReservedChars \cup ControlChars, n \in {0, 3, 1000}}
    \cup {Repeat(c, 133) \o <<"\n">> \o Repeat(c, 300) : c \in ThreeByteChars}
    \cup {Repeat("a", 3) \o <<c>> : c \in ControlChars}

\* The channels send_text is called with.
SendChannels == {C_room, C_grp, C_quiet}

\* A handler calls send_text: the lines are made and checked in order, and
\* each safe one is put on the routed connection's queue.
SendText(channel, text, me, reply_to, multiline) ==
    /\ bot_pc = "tick"
    /\ sending = NoCall
    /\ \A c \in Clients : outbound_queue[c] = <<>>
    /\ sending' = [channel |-> channel, text |-> text, me |-> me,
                   reply_to |-> reply_to, multiline |-> multiline]
    /\ pending' = send_text(channel, text, me, reply_to, multiline)
    /\ bot_pc' = "handlers"
    /\ UNCHANGED <<now, inbound_queue, outbound_queue, user_limiter,
                   channel_spam_limiter, commands, food, session, fault,
                   invoked, putting, recorded, received, conn_vars,
                   sched_vars, mail_vars, src_vars, drain_vars>>

\* send_text returns when its loop has ended.
SendReturns ==
    /\ sending # NoCall
    /\ pending = <<>>
    /\ sending' = NoCall
    /\ bot_pc' = "tick"
    /\ UNCHANGED <<now, inbound_queue, outbound_queue, user_limiter,
                   channel_spam_limiter, commands, food, session, pending,
                   fault, invoked, putting, recorded, received,
                   conn_vars, sched_vars, mail_vars, src_vars, drain_vars>>

TextNext ==
    \/ \E channel \in SendChannels : \E text \in TextInputs :
       \E me \in BOOLEAN : \E reply_to \in {None, N_Alice} :
       \E multiline \in BOOLEAN :
          SendText(channel, text, me, reply_to, multiline)
    \/ Put /\ UNCHANGED <<sending, conn_vars, sched_vars, mail_vars, src_vars, drain_vars>>
    \/ SendReturns
    \/ \E c \in Clients :
          /\ _process_outbound_messages(c)
          /\ UNCHANGED <<sending, conn_vars, sched_vars, mail_vars, src_vars, drain_vars>>

TextSpec == Init /\ [][TextNext]_vars

(***************************************************************************)
(* The life cycle of one connection (client.py:12, 45-67): connecting,     *)
(* the transport's disconnect notifications, the delayed reconnects the    *)
(* reactor runs when they are due, and stop().                             *)
(***************************************************************************)
\* RECONNECT_INTERVAL, in seconds
RECONNECT_INTERVAL == 60 * 2

\* _schedule_reconnect with no delay.
_schedule_now(commands_due, time) == Append(commands_due, time)

\* Client._schedule_reconnect: reactor.execute_delayed(RECONNECT_INTERVAL,
\* self.autoconnect) adds a command due that long after time.
_schedule_reconnect(commands_due, time) ==
    Append(commands_due, time + RECONNECT_INTERVAL)

\* autoconnect without its except clause.
autoconnect_uncaught(commands_due, time, established) ==
    IF established
    THEN [delayed |-> commands_due, transport |-> "up", fault |-> "none"]
    ELSE [delayed |-> commands_due, transport |-> "failed",
          fault |-> "connect"]

\* Client.autoconnect: connect() or connection.reconnect() either
\* establishes the connection or raises ServerConnectionError, which is
\* caught, logged and answered by scheduling a reconnect.
autoconnect(commands_due, time, established) ==
    IF established
    THEN [delayed |-> commands_due, transport |-> "up", fault |-> "none"]
    ELSE [delayed |-> _schedule_reconnect(commands_due, time),
          transport |-> "failed", fault |-> "none"]

\* _on_disconnect without its test of self._running.
_on_disconnect_always(commands_due, time, running) ==
    Append(commands_due, time + RECONNECT_INTERVAL)

\* Client._on_disconnect
_on_disconnect(commands_due, time, running) ==
    IF running THEN _schedule_reconnect(commands_due, time) ELSE commands_due

\* The call of autoconnect with outcome r.
Connecting(r) ==
    /\ delayed' = r.delayed
    /\ transport' = r.transport
    /\ fault' = r.fault
    /\ UNCHANGED <<now, inbound_queue, outbound_queue, user_limiter,
                   channel_spam_limiter, commands, food, bot_pc, session,
                   pending, invoked, putting, recorded, received, sending,
                   _running, sched_vars, mail_vars, src_vars, drain_vars>>

\* The application's call of autoconnect with the server's address.
Connect(established) ==
    /\ transport = "new"
    /\ fault = "none"
    /\ Connecting(autoconnect(delayed, now, established))

\* reactor.process_once runs a delayed command that is due: autoconnect
\* without arguments.
Reconnect(established) ==
    /\ delayed # <<>>
    /\ Head(delayed) <= now
    /\ fault = "none"
    /\ Connecting(autoconnect(Tail(delayed), now, established))

\* The transport reports a disconnect: the disconnect event reaches
\* _on_disconnect through _dispatcher.
Disconnect ==
    /\ transport = "up"
    /\ transport' = "down"
    /\ delayed' = _on_disconnect(delayed, now, _running)
    /\ UNCHANGED <<now, inbound_queue, outbound_queue, bot_vars, putting,
                   received, sending, _running, sched_vars, mail_vars, src_vars, drain_vars>>

\* Client.stop: reactor.disconnect_all() closes a connection that is up,
\* and its disconnect event reaches _on_disconnect within the call.
stop ==
    /\ _running
    /\ _running' = FALSE
    /\ IF transport = "up"
       THEN /\ transport' = "down"
            /\ delayed' = _on_disconnect(delayed, now, FALSE)
       ELSE UNCHANGED <<transport, delayed>>
    /\ UNCHANGED <<now, inbound_queue, outbound_queue, bot_vars, putting,
                   received, sending, sched_vars, mail_vars, src_vars, drain_vars>>

\* A second passes.
Elapse ==
    /\ now < MaxUptime
    /\ now' = now + 1
    /\ UNCHANGED <<inbound_queue, outbound_queue, bot_vars, putting, received,
                   sending, conn_vars, sched_vars, mail_vars, src_vars, drain_vars>>

ConnNext ==
    \/ \E established \in BOOLEAN : Connect(established)
    \/ \E established \in BOOLEAN : Reconnect(established)
    \/ Disconnect
    \/ stop
    \/ Elapse

ConnSpec == Init /\ [][ConnNext]_vars

(***************************************************************************)
(* Bot.run's scheduler tick (bot.py:97-98) as time passes.                 *)
(***************************************************************************)
\* self._scheduler.run(blocking=False) at the top of the loop: it returns
\* at once, having called the events that are due.
SchedulerTick ==
    /\ bot_pc = "tick"
    /\ scheduled' = scheduler_run(scheduled, now, 0).scheduled
    /\ reseeded' = reseeded + scheduler_run(scheduled, now, 0).runs
    /\ UNCHANGED <<now, inbound_queue, outbound_queue, bot_vars, putting,
                   received, sending, conn_vars, mail_vars, src_vars, drain_vars>>

SchedNext ==
    \/ SchedulerTick
    \/ Elapse

SchedSpec == Init /\ [][SchedNext]_vars

(***************************************************************************)
(* Calls of the mailbox store (features.py:57-72, 96-116), as made by      *)
(* Features._mail_command (features.py:535, 557).                          *)
(***************************************************************************)
\* The stores a database file may hold when it is opened: empty, or with
\* the unread mails that earlier senders have left in it.
InitialStores ==
    {[EmptyStore EXCEPT !.others = n] : n \in {0, 90, 98}}

PutMail(username) ==
    /\ mail' = put_mail(mail, username).store
    /\ mail_result' = [op |-> "put_mail", username |-> username,
                       raised |-> put_mail(mail, username).raised]
    /\ UNCHANGED <<now, inbound_queue, outbound_queue, bot_vars, putting,
                   received, sending, conn_vars, sched_vars, src_vars, drain_vars>>

GetMail(skip_username) ==
    /\ \E row \in IF unread_rows(mail, skip_username) = {} THEN {None}
                  ELSE unread_rows(mail, skip_username) :
          /\ mail' = get_mail(mail, row).store
          /\ mail_result' = [op |-> "get_mail", username |-> skip_username,
                             mail_info |-> get_mail(mail, row).username]
    /\ UNCHANGED <<now, inbound_queue, outbound_queue, bot_vars, putting,
                   received, sending, conn_vars, sched_vars, src_vars, drain_vars>>

MailNext ==
    \/ \E username \in MailSenders : PutMail(username)
    \/ \E skip_username \in MailSenders \cup {None} : GetMail(skip_username)

MailSpec == (\E store \in InitialStores : Start(store)) /\ [][MailNext]_vars

(***************************************************************************)
(* The construction of the application (app.py:9-20) from the classes as   *)
(* they are written: Client.__init__ of client.py:20-27 and Bot.__init__   *)
(* of bot.py:44-62.  App.__init__ passes inbound_queue to Client; a Client *)
(* built with the arguments client.py:20 accepts, none, is followed as     *)
(* well, to its queue, to the items its _on_ methods put there and to the  *)
(* assertions of Bot.__init__.  A queue object is named by where it was    *)
(* created.                                                                *)
(***************************************************************************)
\* queue.Queue(100) of app.py:11, which the Bot consumes
AppQueue == <<"app.py:11">>

\* queue.Queue(100) of client.py:26, created by the Client c itself
OwnQueue(c) == <<"client.py:26", c>>

\* The keyword arguments a Client is built with: those of app.py:12-13, or
\* none.
ClientKwargs == {{"inbound_queue"}, {}}

\* Client.__init__(self): what a call with keyword arguments kwargs raises.
Client_init(kwargs) == IF kwargs = {} THEN "none" ELSE "TypeError"

\* The inbound_queue property of the Client c (client.py:29-31).
inbound_queue_of(c) == OwnQueue(c)

\* The assert statements of Bot.__init__ (bot.py:61-62) for the queue the
\* Bot is given.
bot_asserts(queue) ==
    /\ inbound_queue_of(Main) = queue
    /\ inbound_queue_of(Group) = queue

\* App.__init__, app.py:11-13: the two Client(...) calls.
NewClients(kwargs) ==
    /\ app.pc = "new"
    /\ app' = IF Client_init(kwargs) = "none"
              THEN [pc |-> "clients", raised |-> "none"]
              ELSE [pc |-> "raised", raised |-> Client_init(kwargs)]
    /\ UNCHANGED <<now, inbound_queue, outbound_queue, bot_vars, putting,
                   received, sending, conn_vars, sched_vars, mail_vars,
                   own_queue, drain_vars>>

\* App.__init__, app.py:17-20: Bot(channels, main_client, group_client,
\* inbound_queue, ...), up to its assertions.
NewBot ==
    /\ app.pc = "clients"
    /\ app' = IF bot_asserts(AppQueue)
              THEN [pc |-> "bot", raised |-> "none"]
              ELSE [pc |-> "raised", raised |-> "AssertionError"]
    /\ UNCHANGED <<now, inbound_queue, outbound_queue, bot_vars, putting,
                   received, sending, conn_vars, sched_vars, mail_vars,
                   own_queue, drain_vars>>

\* Client.process on a Client that was built: reactor.process_once hands an
\* event to _dispatcher, whose _on_ method puts its item on
\* self._inbound_queue (client.py:85, 95, 109, 121, 144).
OnEventOwn(c, event) ==
    /\ app.pc = "clients"
    /\ received < MaxEvents
    /\ received' = received + 1
    /\ Len(own_queue[c]) < InboundCap
    /\ own_queue' = [own_queue EXCEPT ![c] = Append(@, _dispatcher(event))]
    /\ UNCHANGED <<now, inbound_queue, outbound_queue, bot_vars, putting,
                   sending, conn_vars, sched_vars, mail_vars, app, drain_vars>>

BuildNext ==
    \/ \E kwargs \in ClientKwargs : NewClients(kwargs)
    \/ NewBot
    \/ \E c \in Clients : \E event \in EventsOf(c) : OnEventOwn(c, event)

BuildSpec == Init /\ [][BuildNext]_vars

(***************************************************************************)
(* The drain of an outbound queue with what it hands to the connection     *)
(* (client.py:151-191), fed by calls of Client.privmsg, Client.join and    *)
(* Client.part (client.py:193-211).                                        *)
(***************************************************************************)
\* Client.part's queue item (client.py:207-211)
PartItem(channel) == [message_type |-> "part", channel |-> channel]

\* Client.validate_text: TRUE when it raises InvalidTextError.
validate_text(text) == \E i \in 1..Len(text) : text[i] \in ControlChars

\* The body of the loop for one item: what is handed to the connection.
\* A privmsg whose target or text validate_text refuses is skipped.
on_item(item) ==
    IF item.message_type = "privmsg"
       /\ (validate_text(item.target) \/ validate_text(item.text))
    THEN <<>>
    ELSE <<item>>

\* for dummy in range(5): get_nowait(), break when the queue is empty.
RECURSIVE drain_loop(_, _, _)
drain_loop(queue, dummy, sent) ==
    IF dummy = DrainBatch \/ queue = <<>>
    THEN [queue |-> queue, sent |-> sent, took |-> dummy]
    ELSE drain_loop(Tail(queue), dummy + 1, sent \o on_item(Head(queue)))

\* The commands put on the queue of the connection c in DrainSpec.
DrainItems(c) ==
    IF c = Main
    THEN {PrivmsgItem(C_room, Texts.hello, FALSE),
          PrivmsgItem(C_room, Texts.hello \o <<"\n">>, FALSE),
          PrivmsgItem(<<"\r">> \o C_room, Texts.hello, TRUE),
          PartItem(C_room)}
    ELSE {JoinItem(C_grp)}

\* self._outbound_queue.put(item) of Client.privmsg, join or part.
Enqueue(c, item) ==
    /\ Len(outbound_queue[c]) < OutboundCap
    /\ Len(outbound_queue[Main]) + Len(outbound_queue[Group])
         + Len(transmitted[Main]) + Len(transmitted[Group]) < MaxCommands
    /\ outbound_queue' = [outbound_queue EXCEPT ![c] = Append(@, item)]
    /\ UNCHANGED <<now, inbound_queue, bot_vars, putting, received, sending,
                   conn_vars, sched_vars, mail_vars, src_vars, drain_vars>>

\* Client._process_outbound_messages with what it transmits.
Drain(c) ==
    /\ _process_outbound_messages(c)
    /\ transmitted' =
         [transmitted EXCEPT
             ![c] = @ \o drain_loop(outbound_queue[c], 0, <<>>).sent]
    /\ took' = [took EXCEPT ![c] = drain_loop(outbound_queue[c], 0, <<>>).took]
    /\ UNCHANGED <<sending, conn_vars, sched_vars, mail_vars, src_vars>>

DrainNext ==
    \/ \E c \in Clients : \E item \in DrainItems(c) : Enqueue(c, item)
    \/ \E c \in Clients : Drain(c)

DrainSpec == Init /\ [][DrainNext]_vars

(***************************************************************************)
(* The program receiving events of every type that Client has an _on_      *)
(* method for (client.py:79-149), the events that are no chat message      *)
(* carrying the text of a command.                                         *)
(***************************************************************************)
OtherEvents ==
    {RawEvent("pubnotice", C_room, None, None, CommandText.help),
     RawEvent("clearchat", C_room, None, None, N_Alice),
     RawEvent("clearchat", C_room, None, None, None),
     RawEvent("whisper", None, N_alice_src, None, CommandText.help),
     RawEvent("whisper", None, N_alice_src, None, CommandText.klappa)}

\* The chat message that the events above are compared with.
HelpEvent == RawEvent("pubmsg", C_room, N_alice_src, N_Alice, CommandText.help)

AnyTypeNext ==
    /\ \/ Tick
       \/ \E c \in Clients : _process_outbound_messages(c)
       \/ \E c \in Clients :
             \E event \in OtherEvents \cup {WelcomeEvent, HelpEvent} :
                /\ received < MaxEvents
                /\ received' = received + 1
                /\ OnEvent(c, event)
       \/ \E env \in HandlerEnvs : Dispatch(env)
       \/ Put
       \/ \E env \in CommandEnvs : HandlersDone(env)
       \/ CommandsDone
    /\ UNCHANGED <<sending, conn_vars, sched_vars, mail_vars, src_vars,
                   drain_vars>>

AnyTypeSpec == Init /\ [][AnyTypeNext]_vars

(***************************************************************************)
(* Properties.                                                             *)
(***************************************************************************)
\* The Dispatcher takes an item off the inbound queue and runs the event
\* handlers registered for it.
HandlersStep == bot_pc = "tick" /\ bot_pc' = "handlers"

\* The Dispatcher runs _process_text_commands for the message of the session.
TextCommandsStep == bot_pc = "handlers" /\ bot_pc' = "commands"

\* The command handlers among the invocations inv.
CommandsInvoked(inv) == SelectSeq(inv, LAMBDA i : i.kind = "command")

\* The registrations of cmds whose pattern matches text with no earlier
\* registration matching it.
Earliest(cmds, text) ==
    {i \in 1..Len(cmds) :
        /\ re_match(cmds[i].pattern, text)
        /\ \A j \in 1..(i - 1) : ~re_match(cmds[j].pattern, text)}

\* The senders and the channels of the model's messages.
Usernames == {irc_lower(e.source_nick) : e \in ChatEvents}
ChannelNames == {irc_lower(e.target) : e \in ChatEvents}

\* C1: a handler that raises does not end the Dispatcher loop: the loop is
\* never left because of a handler's exception.
C1_HandlerFaultIsolated == ~(fault = "handler" /\ bot_pc = "crashed")

\* C2: whatever was recorded, each cooldown table holds at most TableCap
\* entries when update has ended.
C2_TableWithinCap ==
    /\ table_len(user_limiter) <= TableCap
    /\ table_len(channel_spam_limiter) <= TableCap

\* is_ok(key) at every time from now on, for a limiter lim whose update
\* calls are in stamps: true for a key never recorded, and for a key recorded
\* at t true exactly at the times later than t + min_interval.
TimingOf(lim, stamps, keys) ==
    \A k \in keys :
        IF k \notin DOMAIN stamps
        THEN \A tau \in now..(MaxTime + lim.min_interval + 1) :
                is_ok(lim, k, tau)
        ELSE \A tau \in now..(MaxTime + lim.min_interval + 1) :
                is_ok(lim, k, tau) <=> tau > stamps[k] + lim.min_interval

\* C3: is_ok(k) is true when k was never recorded; after update(k) at time
\* t it is false at every time up to and including t + min_interval and true
\* at every later time, for both limiters.
C3_LimiterTiming ==
    /\ TimingOf(user_limiter, recorded.user, Usernames)
    /\ TimingOf(channel_spam_limiter, recorded.channel, ChannelNames)

\* A sender was recorded, the minimum interval has since passed and the
\* sender is allowed again, while a channel recorded now is not.
C3_Witness ==
    /\ \E k \in DOMAIN recorded.user :
          /\ now > recorded.user[k] + UserMinInterval
          /\ is_ok(user_limiter, k, now)
    /\ \E k \in DOMAIN recorded.channel :
          /\ now <= recorded.channel[k] + ChannelMinInterval
          /\ ~is_ok(channel_spam_limiter, k, now)

\* C4: a command handler runs only if both limiters allow; when a limiter
\* rejects, neither table changes; and when the message is admitted and a
\* pattern matches, the sender and the channel are both recorded at that time.
C4_AdmissionAtomic ==
    [][TextCommandsStep =>
        /\ CommandsInvoked(invoked') # <<>> =>
              /\ is_ok(user_limiter, session.message.username, now)
              /\ is_ok(channel_spam_limiter, session.message.channel, now)
        /\ (\/ ~is_ok(user_limiter, session.message.username, now)
            \/ ~is_ok(channel_spam_limiter, session.message.channel, now)) =>
              UNCHANGED <<user_limiter, channel_spam_limiter>>
        /\ (/\ session.message.username \notin IgnoredUsers
            /\ session.message.username # irc_lower(Nickname)
            /\ is_ok(user_limiter, session.message.username, now)
            /\ is_ok(channel_spam_limiter, session.message.channel, now)
            /\ Earliest(commands, session.message.text) # {}) =>
              /\ session.message.username \in DOMAIN user_limiter'.table
              /\ user_limiter'.table[session.message.username] = now
              /\ session.message.channel \in DOMAIN channel_spam_limiter'.table
              /\ channel_spam_limiter'.table[session.message.channel] = now
      ]_vars

\* C5: the command handler invoked for a message is that of the earliest
\* registration whose pattern matches the text at its start, no other command
\* handler is invoked for the event, and that handler is invoked whenever the
\* message is admitted and both limiters were updated.
C5_FirstMatchWins ==
    [][TextCommandsStep =>
        /\ Len(CommandsInvoked(invoked')) <= 1
        /\ \A n \in 1..Len(CommandsInvoked(invoked')) :
              /\ CommandsInvoked(invoked')[n].index
                    \in Earliest(commands, session.message.text)
              /\ CommandsInvoked(invoked')[n].func
                    = commands[CommandsInvoked(invoked')[n].index].func
        /\ (/\ session.message.username \notin IgnoredUsers
            /\ session.message.username # irc_lower(Nickname)
            /\ is_ok(user_limiter, session.message.username, now)
            /\ is_ok(channel_spam_limiter, session.message.channel, now)
            /\ Earliest(commands, session.message.text) # {}
            /\ fault' = "none") =>
              Len(CommandsInvoked(invoked')) = 1
      ]_vars

\* The handler of the first registration was invoked for a text that a later
\* registration matches as well.
C5_Witness ==
    /\ bot_pc = "commands"
    /\ \E n \in 1..Len(invoked) :
          /\ invoked[n].kind = "command"
          /\ \E j \in (invoked[n].index + 1)..Len(commands) :
                re_match(commands[j].pattern, session.message.text)

\* C6: a pubmsg or action whose sender is the bot's own lowercased nickname
\* invokes no command handler and changes no cooldown table.
C6_OwnMessages ==
    [][(TextCommandsStep /\ session.message.username = irc_lower(Nickname)) =>
        /\ CommandsInvoked(invoked') = <<>>
        /\ UNCHANGED <<user_limiter, channel_spam_limiter>>
      ]_vars

\* Command dispatch ran for a message of the bot itself whose text matches a
\* registered pattern, while both limiters allowed the sender and the channel.
C6_Witness ==
    /\ bot_pc = "commands"
    /\ session.message.username = irc_lower(Nickname)
    /\ Earliest(commands, session.message.text) # {}
    /\ is_ok(user_limiter, session.message.username, now)
    /\ is_ok(channel_spam_limiter, session.message.channel, now)

\* C7: a pubmsg or action whose sender is on the ignore list invokes no
\* command handler and leaves both cooldown tables unchanged.
C7_IgnoredSenders ==
    [][(TextCommandsStep /\ session.message.username \in IgnoredUsers) =>
        /\ CommandsInvoked(invoked') = <<>>
        /\ UNCHANGED <<user_limiter, channel_spam_limiter>>
      ]_vars

\* Command dispatch ran for a message of an ignored sender whose text matches
\* a registered pattern, while both limiters allowed the sender and the channel.
C7_Witness ==
    /\ bot_pc = "commands"
    /\ session.message.username \in IgnoredUsers
    /\ Earliest(commands, session.message.text) # {}
    /\ is_ok(user_limiter, session.message.username, now)
    /\ is_ok(channel_spam_limiter, session.message.channel, now)

\* The sender of message was recorded by the sender limiter and the minimum
\* interval has not passed since.
InWindow(message) ==
    /\ message.username \in DOMAIN recorded.user
    /\ now <= recorded.user[message.username] + UserMinInterval

\* C8 as stated: once a command of the sender was admitted and matched at
\* time t, a further pubmsg or action of that sender processed no later than
\* t + UserMinInterval invokes no command handler and makes no outbound send.
C8_NoSendInWindow ==
    [][/\ (/\ HandlersStep
           /\ session'.message.event_type \in {"pubmsg", "action"}
           /\ InWindow(session'.message)) =>
              pending' = <<>>
       /\ (TextCommandsStep /\ InWindow(session.message)) =>
              /\ CommandsInvoked(invoked') = <<>>
              /\ pending' = <<>>
      ]_vars

\* C8 amended: within the window the sender's messages invoke no command
\* handler and command dispatch makes no send; a message whose text matches
\* a command pattern makes no send at all.  The event handlers run for every
\* message and their sends are not held back.
C8_NoCommandInWindow ==
    [][/\ (/\ HandlersStep
           /\ session'.message.event_type \in {"pubmsg", "action"}
           /\ InWindow(session'.message)
           /\ Earliest(commands, session'.message.text) # {}) =>
              pending' = <<>>
       /\ (TextCommandsStep /\ InWindow(session.message)) =>
              /\ CommandsInvoked(invoked') = <<>>
              /\ pending' = <<>>
      ]_vars

\* Command dispatch turned down a command text of a sender recorded earlier,
\* inside the sender's window and after the channel's interval had passed.
C8_Witness ==
    /\ bot_pc = "commands"
    /\ InWindow(session.message)
    /\ now > recorded.user[session.message.username] + ChannelMinInterval
    /\ is_ok(channel_spam_limiter, session.message.channel, now)
    /\ Earliest(commands, session.message.text) # {}
    /\ CommandsInvoked(invoked) = <<>>
    /\ pending = <<>>

\* C9: processing the pubmsg "!help" of alice in #room, neither ignored nor
\* the bot, with both limiters allowing and the help command registered, puts
\* exactly one privmsg on the outbound queue of the connection #room routes
\* to, with target #room and a text that begins with the at-mention of alice.
C9_HelpRepliesOnce ==
    [][(/\ TextCommandsStep
        /\ session.message.event_type = "pubmsg"
        /\ session.message.channel = C_room
        /\ session.message.username = N_alice_src
        /\ session.message.text = CommandText.help
        /\ session.message.username \notin IgnoredUsers
        /\ session.message.username # irc_lower(Nickname)
        /\ is_ok(user_limiter, session.message.username, now)
        /\ is_ok(channel_spam_limiter, session.message.channel, now)) =>
          /\ Len(pending') = 1
          /\ pending'[1].client = route(C_room)
          /\ pending'[1].item.message_type = "privmsg"
          /\ pending'[1].item.target = C_room
          /\ startswith(pending'[1].item.text,
                        Concat(<<(<<"@">>), session.message.nick, (<<",", " ">>)>>))
      ]_vars

\* C10: the Dispatcher never blocks indefinitely: its loop keeps returning to
\* the scheduler tick, also when a handler's send or join finds the outbound
\* queue full.
C10_BackToTick == []<>(bot_pc = "tick")

\* Every privmsg item the Bot has handed or is handing to a connection.
HandedOver ==
    {pending[i].item : i \in 1..Len(pending)}
        \cup UNION {{outbound_queue[c][i] : i \in 1..Len(outbound_queue[c])} :
                    c \in Clients}

\* C14: every text handed to a connection is empty, or is of at most 400
\* characters and 450 encoded bytes, does not begin with one of . / ! U+0060 _,
\* holds no control character and goes to a channel that is not silenced; a
\* text beginning with a reserved character is never handed over, not even
\* when it is the only line of the call.
C14_HandedTextIsSafe ==
    \A item \in HandedOver :
        \/ item.text = <<>>
        \/ /\ Len(item.text) <= MaxTextChars
           /\ utf8_len(item.text) <= MaxTextBytes
           /\ Head(item.text) \notin {".", "/", "!", "U+0060", "_"}
           /\ \A i \in 1..Len(item.text) : item.text[i] \notin ControlChars
           /\ item.target \notin SilentChannels

\* A call whose only line begins with a reserved character has been made,
\* and nothing was handed over.
C14_Witness ==
    /\ sending # NoCall
    /\ sending.reply_to = None
    /\ ~sending.multiline
    /\ sending.text # <<>>
    /\ Head(sending.text) \in ReservedChars
    /\ HandedOver = {}

\* The lines the loop of a send_text call goes through.
CallLines(args) ==
    IF args.multiline
    THEN split_multiline(
            IF args.reply_to # None THEN at_mention(args.reply_to, args.text)
            ELSE args.text, SplitMaxLength)
    ELSE <<IF args.reply_to # None THEN at_mention(args.reply_to, args.text)
           ELSE args.text>>

\* The lines of lines that pass the check for channel, in order.
RECURSIVE SafeLines(_, _)
SafeLines(lines, channel) ==
    IF lines = <<>> THEN <<>>
    ELSE (IF is_text_safe(Head(lines), channel) THEN <<Head(lines)>> ELSE <<>>)
            \o SafeLines(Tail(lines), channel)

\* The step in which send_text is called.
SendTextStep == sending = NoCall /\ sending' # NoCall

\* C15: in a multiline send the rejection of a chunk drops that chunk only:
\* the chunks before it stay handed over, and the chunks after it are still
\* checked and, when safe, handed over; so the call hands over exactly its
\* safe chunks, in order.
C15_OnlyUnsafeChunkDropped ==
    [][(SendTextStep /\ sending'.multiline) =>
          [i \in 1..Len(pending') |-> pending'[i].item.text]
              = SafeLines(CallLines(sending'), sending'.channel)]_vars

\* C16: every chunk a multiline send makes, its continuation marker
\* included, is of at most 400 characters and 450 encoded bytes, so that no
\* chunk is rejected for its length.
C16_ChunksWithinLimits ==
    (sending # NoCall /\ sending.multiline) =>
        \A i \in 1..Len(CallLines(sending)) :
            /\ Len(CallLines(sending)[i]) <= MaxTextChars
            /\ utf8_len(CallLines(sending)[i]) <= MaxTextBytes

\* The text a send_text call splits: with the at-mention when replying.
CallText(args) ==
    IF args.reply_to # None THEN at_mention(args.reply_to, args.text)
    ELSE args.text

\* The chunks without their continuation markers.
Unmarked(lines) ==
    [i \in 1..Len(lines) |->
        IF i = 1 THEN lines[i] ELSE Drop(lines[i], Len(L_continuation))]

\* C17: the multiline split yields the chunks in order, the first without a
\* marker and every later one beginning with "(...) "; without the markers
\* the chunks concatenate to the original text; a text of 1000 bytes split
\* at 400 yields 3 chunks, the second and third marked.
C17_SplitReassembles ==
    (sending # NoCall /\ sending.multiline) =>
        /\ \A i \in 2..Len(CallLines(sending)) :
              startswith(CallLines(sending)[i], L_continuation)
        /\ Concat(Unmarked(CallLines(sending))) = CallText(sending)
        /\ utf8_len(CallText(sending)) = 1000 => Len(CallLines(sending)) = 3

\* A multiline send of a text of 1000 bytes is being made.
C17_Witness ==
    /\ sending # NoCall
    /\ sending.multiline
    /\ utf8_len(CallText(sending)) = 1000
    /\ Len(CallLines(sending)) = 3

\* The channel an outbound item is for.
ItemChannel(item) ==
    IF item.message_type = "join" THEN item.channel ELSE item.target

\* The connection the channel's name alone asks for.
ByName(channel) ==
    IF Len(channel) >= 2 /\ channel[1] = "#" /\ channel[2] = "_" THEN Group
    ELSE Main

\* C18: the connection an outbound item goes to depends on the channel name
\* only: a name beginning with "#_" goes to the group connection's outbound
\* queue and every other name to the main connection's, whichever connection
\* the event came from and whatever was sent or recorded before.
C18_RoutedByName ==
    /\ \A i \in 1..Len(pending) :
          pending[i].client = ByName(ItemChannel(pending[i].item))
    /\ \A c \in Clients : \A i \in 1..Len(outbound_queue[c]) :
          c = ByName(ItemChannel(outbound_queue[c][i]))

\* While an event of the main connection is processed, an item for a group
\* chat is on the group connection's queue and one for another channel on
\* the main connection's.
C18_Witness ==
    /\ session # NoSession
    /\ session.client = Main
    /\ outbound_queue[Group] # <<>>
    /\ outbound_queue[Main] # <<>>

\* The transport reports a disconnect.
DisconnectStep == transport = "up" /\ transport' = "down"

\* A delayed autoconnect is run.
ReconnectStep ==
    /\ transport # "new"
    /\ \/ transport' = "up" /\ transport # "up"
       \/ transport' = "failed" /\ delayed' # delayed

\* C11: a disconnect reported while stop() has not been called schedules
\* exactly one reconnect, due 120 seconds later; a scheduled reconnect is
\* never attempted before it is due, and is attempted once.
C11_OneReconnectAfterBackoff ==
    [][/\ (DisconnectStep /\ _running /\ _running') =>
              delayed' = Append(delayed, now + 120)
       /\ ReconnectStep =>
              /\ delayed # <<>>
              /\ Head(delayed) <= now
              /\ \/ delayed' = Tail(delayed)
                 \/ delayed' = Append(Tail(delayed), now + 120)
      ]_vars

\* The connection was disconnected while running, and its one reconnect is
\* due in 120 seconds.
C11_Witness ==
    /\ transport = "down"
    /\ _running
    /\ delayed = <<now + 120>>

\* C12: once stop() has been called, a disconnect reported by the
\* transport, the one stop() causes included, schedules no reconnect.
C12_NoReconnectAfterStop ==
    [][(DisconnectStep /\ ~_running') => delayed' = delayed]_vars

\* The connection went down after stop(), with nothing scheduled.
C12_Witness ==
    /\ transport = "down"
    /\ ~_running
    /\ delayed = <<>>

\* A connection attempt fails.
FailedAttemptStep ==
    /\ transport' = "failed"
    /\ transport # "failed" \/ delayed' # delayed \/ fault' # fault

\* C13: every connection attempt that fails leaves exactly one further
\* attempt scheduled, due 120 seconds later, however many attempts failed
\* before, and raises nothing to the caller.
C13_FailureSchedulesRetry ==
    [][FailedAttemptStep =>
          /\ delayed' = <<now + 120>>
          /\ fault' = "none"]_vars

\* An attempt made 240 seconds or more into the run, late enough to be the
\* third in a row, has failed, and the next one is scheduled.
C13_Witness ==
    /\ transport = "failed"
    /\ now >= 2 * 120
    /\ delayed = <<now + 120>>
    /\ fault = "none"

\* The Dispatcher takes the oldest item off the inbound queue.
PopStep == inbound_queue # <<>> /\ inbound_queue' = Tail(inbound_queue)

\* C19: the inbound queue never holds more than 100 items and no event is
\* lost: a push onto the full queue waits until the Dispatcher has popped an
\* item, and every event pushed is popped later; so the Dispatcher keeps
\* popping for as long as items are queued or waiting to be queued.
C19_EveryEventPopped ==
    /\ [](Len(inbound_queue) <= 100)
    /\ \/ []<><<PopStep>>_vars
       \/ <>[](inbound_queue = <<>> /\ \A c \in Clients : putting[c] = NoItem)

\* C20: with both drivers pushing, the Dispatcher processes the events of a
\* connection in the order that connection produced them: an event is put
\* behind the queued ones and the oldest one is taken; and it takes the next
\* event only when the one before has been through all its handlers.
C20_InOrderOneAtATime ==
    [][/\ Len(inbound_queue') > Len(inbound_queue) =>
              /\ Len(inbound_queue') = Len(inbound_queue) + 1
              /\ SubSeq(inbound_queue', 1, Len(inbound_queue)) = inbound_queue
       /\ Len(inbound_queue') < Len(inbound_queue) =>
              /\ inbound_queue' = Tail(inbound_queue)
              /\ bot_pc = "tick"
              /\ pending = <<>>
              /\ session'.message = Head(inbound_queue)
       /\ Len(inbound_queue') = Len(inbound_queue) =>
              inbound_queue' = inbound_queue
       /\ (bot_pc # "tick" /\ bot_pc' = "tick") => pending = <<>>
      ]_vars

\* An event of one connection waits in the queue while the Dispatcher is
\* still processing an earlier event of the other connection.
C20_Witness ==
    /\ bot_pc \in {"handlers", "commands"}
    /\ session # NoSession
    /\ inbound_queue # <<>>
    /\ Head(inbound_queue).client # session.client

\* C21: a connection's outbound queue never holds more than 10 commands; a
\* put onto a full queue waits, its command kept by the caller, until the
\* driver has taken commands off; and the queue only ever changes by a
\* command put at its back or by commands taken from its front, so that
\* none is dropped, overwritten or reordered.
C21_OutboundBounded ==
    [][\A c \in Clients :
          /\ Len(outbound_queue'[c]) <= 10
          /\ \/ outbound_queue'[c] = outbound_queue[c]
             \/ /\ pending # <<>>
                /\ Head(pending).client = c
                /\ Len(outbound_queue[c]) < 10
                /\ outbound_queue'[c] =
                     Append(outbound_queue[c], Head(pending).item)
                /\ pending' = Tail(pending)
             \/ /\ pending' = pending
                /\ \E n \in 1..Len(outbound_queue[c]) :
                      outbound_queue'[c] =
                          SubSeq(outbound_queue[c], n + 1,
                                 Len(outbound_queue[c]))
      ]_vars

\* The Dispatcher is inside a put onto a queue that holds 10 commands.
C21_Witness ==
    /\ bot_pc \in {"handlers", "commands"}
    /\ pending # <<>>
    /\ Len(outbound_queue[Head(pending).client]) = 10

\* The invocations of the handlers registered for event_type, from the
\* index-th registration on, in registration order.
RECURSIVE RegisteredFrom(_, _)
RegisteredFrom(index, event_type) ==
    IF index > Len(MessageHandlers) THEN <<>>
    ELSE (IF MessageHandlers[index].event_type = event_type
          THEN <<Invocation("handler", index, MessageHandlers[index].func)>>
          ELSE <<>>) \o RegisteredFrom(index + 1, event_type)

ChannelsOf(c) ==
    {Channels[i] : i \in {j \in 1..Len(Channels) : ByName(Channels[j]) = c}}

\* C23: on every welcome event one join is queued for each configured
\* channel of the role of the connection the event came from, the group
\* chats for the group connection and all the others for the main one, and
\* for no other channel, each on that same connection's queue; the two sets
\* of channels are disjoint and together are the configured list.
C23_JoinsOfTheRole ==
    [][(HandlersStep /\ session'.message.event_type = "welcome") =>
          /\ \A i \in 1..Len(pending') :
                /\ pending'[i].client = session'.client
                /\ pending'[i].item.message_type = "join"
          /\ {pending'[i].item.channel : i \in 1..Len(pending')}
                = ChannelsOf(session'.client)
          /\ Len(pending') = Cardinality(ChannelsOf(session'.client))
          /\ ChannelsOf(Main) \cap ChannelsOf(Group) = {}
          /\ ChannelsOf(Main) \cup ChannelsOf(Group)
                = {Channels[i] : i \in 1..Len(Channels)}
      ]_vars

\* The welcome of the group connection is being processed, and the join of
\* its group chat is about to be put on its queue.
C23_Witness ==
    /\ bot_pc = "handlers"
    /\ session # NoSession
    /\ session.message.event_type = "welcome"
    /\ session.client = Group
    /\ pending = <<[client |-> Group,
                    item |-> [message_type |-> "join", channel |-> C_grp]]>>

\* C24: a scheduled task is called once, on a tick at or after its due time
\* and never before; a tick calls only what is due and does not wait, so it
\* takes no time and leaves an event that is not due where it is; and the
\* reseed, which schedules itself again when called, has exactly one pending
\* occurrence at all times, due 300 seconds after its last call.
C24_DueTasksOnce ==
    [][/\ Len(scheduled') = 1
       /\ IF Len(scheduled) = 1 /\ scheduled[1] <= now /\ bot_pc = "tick"
             /\ now' = now
          THEN \/ /\ reseeded' = reseeded + 1
                  /\ scheduled' = <<now + 300>>
               \/ UNCHANGED <<scheduled, reseeded>>
          ELSE UNCHANGED <<scheduled, reseeded>>
      ]_vars

\* The reseed has just been called by the scheduler, later than it was due,
\* and has scheduled itself again.
C24_Witness ==
    /\ reseeded = 1
    /\ now > 300
    /\ scheduled = <<now + 300>>

\* A call of put_mail has just been made.
PutMailStep ==
    /\ mail_result'.op = "put_mail"
    /\ mail_vars' # mail_vars

\* C25: No sender ever has more than 10 unread mails and the store never
\* holds more than 100; a put_mail by a sender who has 10 unread mails fails
\* with SenderOutboxFullError, one into a store of 100 unread mails fails
\* with MailbagFullError, a failing put_mail leaves the store as it was, and
\* every other put_mail adds one unread mail of its sender.
C25_MailboxBounded ==
    /\ \A u \in MailSenders : unread_of(mail, u) <= 10
    /\ unread_total(mail) <= 100
    /\ [][/\ \A u \in MailSenders : unread_of(mail', u) <= 10
          /\ unread_total(mail') <= 100
          /\ PutMailStep =>
                IF unread_of(mail, mail_result'.username) >= 10
                THEN /\ mail_result'.raised = "SenderOutboxFullError"
                     /\ mail' = mail
                ELSE IF unread_total(mail) >= 100
                THEN /\ mail_result'.raised = "MailbagFullError"
                     /\ mail' = mail
                ELSE /\ mail_result'.raised = "none"
                     /\ unread_total(mail') = unread_total(mail) + 1
                     /\ unread_of(mail', mail_result'.username)
                            = unread_of(mail, mail_result'.username) + 1
         ]_vars

\* A sender with fewer than 10 unread mails has just been refused because the
\* store holds 100 unread mails, after mails were put and retrieved.
C25_Witness ==
    /\ mail_result.op = "put_mail"
    /\ mail_result.raised = "MailbagFullError"
    /\ unread_total(mail) = 100
    /\ unread_of(mail, mail_result.username) < 10
    /\ mail.others < 90

\* C26: in no reachable state is the Dispatcher inside a put onto the full
\* outbound queue of a connection whose driver is itself inside a put onto
\* the full inbound queue.
C26_NoMutualWait ==
    \A c \in Clients :
        ~ /\ bot_pc \in {"handlers", "commands"}
          /\ pending # <<>>
          /\ Head(pending).client = c
          /\ Len(outbound_queue[c]) = OutboundCap
          /\ putting[c] # NoItem
          /\ Len(inbound_queue) = InboundCap

\* C27: Limiter.update never raises, however many keys the table holds:
\* whenever _process_text_commands admits a message whose text matches a
\* command, no KeyError comes out of it and the command handler is invoked.
C27_UpdateReturns ==
    [][(/\ TextCommandsStep
        /\ session.message.username \notin IgnoredUsers
        /\ session.message.username # irc_lower(Nickname)
        /\ is_ok(user_limiter, session.message.username, now)
        /\ is_ok(channel_spam_limiter, session.message.channel, now)
        /\ Earliest(commands, session.message.text) # {}) =>
          /\ fault' # "KeyError"
          /\ Len(CommandsInvoked(invoked')) = 1
      ]_vars

\* C28: once stop() has been called on a connection no delayed autoconnect
\* is run on it, whether it was scheduled before stop() or not.
C28_NoAttemptAfterStop ==
    [][ReconnectStep => _running]_vars

\* C29: the construction of the application raises nothing, and once the
\* connections are built the inbound queue of each of them is the queue the
\* Dispatcher consumes, as the assertions of the Bot constructor say.
C29_SingleInboundQueue ==
    /\ app.raised = "none"
    /\ app.pc # "new" => bot_asserts(AppQueue)

\* C30: every item a connection has put on its inbound queue, whatever the
\* type of the event, has a 'client' entry, and that entry is the connection
\* that put it.
C30_ItemsNameTheirClient ==
    \A c \in Clients : \A index \in 1..Len(own_queue[c]) :
        /\ "client" \in DOMAIN own_queue[c][index]
        /\ own_queue[c][index].client = c

\* C31: a cooldown table changes only in a step of _process_text_commands
\* whose message was admitted and whose text matches a registered pattern, so
\* the admission test changes none; and for a message whose text matches no
\* pattern no command handler is invoked and both tables stay as they were.
C31_TablesChangeOnMatchOnly ==
    [][/\ (\/ user_limiter' # user_limiter
           \/ channel_spam_limiter' # channel_spam_limiter) =>
              /\ TextCommandsStep
              /\ is_ok(user_limiter, session.message.username, now)
              /\ is_ok(channel_spam_limiter, session.message.channel, now)
              /\ Earliest(commands, session.message.text) # {}
       /\ (TextCommandsStep /\ Earliest(commands, session.message.text) = {})
            => /\ CommandsInvoked(invoked') = <<>>
               /\ UNCHANGED <<user_limiter, channel_spam_limiter>>
               /\ fault' = "none"
      ]_vars

\* _process_text_commands has run for a message that both limiters allowed
\* and whose text matches no pattern: its sender and channel are in no table.
C31_Witness ==
    /\ bot_pc = "commands"
    /\ session.message.username \notin IgnoredUsers
    /\ session.message.username # irc_lower(Nickname)
    /\ Earliest(commands, session.message.text) = {}
    /\ session.message.username \notin DOMAIN user_limiter.table
    /\ session.message.channel \notin DOMAIN channel_spam_limiter.table
    /\ invoked # <<>>
    /\ CommandsInvoked(invoked) = <<>>

\* The items of a sequence that the driver transmits: all but the privmsg
\* items with a control character in their target or text.
Transmittable(items) ==
    SelectSeq(items,
        LAMBDA item :
            \/ item.message_type # "privmsg"
            \/ /\ \A i \in 1..Len(item.target) :
                      item.target[i] \notin ControlChars
               /\ \A i \in 1..Len(item.text) :
                      item.text[i] \notin ControlChars)

\* C32: a drain takes at most 5 commands, from the front of the queue and in
\* queue order, leaves the rest of the queue as it was, and transmits each
\* command taken once, in that order, except the privmsg commands with a
\* control character in target or text, which it skips; nothing is
\* transmitted by any other step.
C32_DrainTakesFiveInOrder ==
    [][\A c \in Clients :
          IF Len(outbound_queue'[c]) < Len(outbound_queue[c])
          THEN /\ Len(outbound_queue[c]) - Len(outbound_queue'[c]) <= 5
               /\ outbound_queue'[c] =
                    SubSeq(outbound_queue[c],
                           Len(outbound_queue[c]) - Len(outbound_queue'[c]) + 1,
                           Len(outbound_queue[c]))
               /\ transmitted'[c] = transmitted[c] \o
                    Transmittable(SubSeq(outbound_queue[c], 1,
                        Len(outbound_queue[c]) - Len(outbound_queue'[c])))
               /\ took'[c] = Len(outbound_queue[c]) - Len(outbound_queue'[c])
          ELSE transmitted'[c] = transmitted[c]
      ]_vars

\* The last drain of the main connection took 5 commands and skipped one of
\* them, and a further command is queued.
C32_Witness ==
    /\ took[Main] = 5
    /\ Len(transmitted[Main]) = 4
    /\ Len(outbound_queue[Main]) = 1

\* The event being processed is neither a pubmsg nor an action.
OtherType(s) ==
    /\ s # NoSession
    /\ s.message.event_type \notin {"pubmsg", "action"}

\* C33: for an event that is neither a pubmsg nor an action, whatever its
\* text, command dispatch is not run: no command handler is invoked and
\* neither cooldown table changes, when its handlers are run and afterwards.
C33_OtherTypesNoCommands ==
    [][/\ (HandlersStep /\ OtherType(session')) =>
              /\ CommandsInvoked(invoked') = <<>>
              /\ UNCHANGED <<user_limiter, channel_spam_limiter>>
       /\ OtherType(session) =>
              /\ bot_pc' # "commands"
              /\ CommandsInvoked(invoked') = <<>>
              /\ UNCHANGED <<user_limiter, channel_spam_limiter>>
      ]_vars

\* The Dispatcher has taken a whisper whose text is that of a command and
\* has run the handlers of its type: no handler was invoked and no cooldown
\* is recorded for its sender.
C33_Witness ==
    /\ bot_pc = "handlers"
    /\ OtherType(session)
    /\ session.message.event_type = "whisper"
    /\ session.message.text = CommandText.help
    /\ invoked = <<>>
    /\ session.message.username \notin DOMAIN user_limiter.table
====
